---- MODULE Spec2Model ----
(***************************************************************************)
(* Model of the rollout service of bytebase                                *)
(* (src/backend/api/v1/inbox_service.go, RolloutService): the plan         *)
(* compiler (getPipelineCreate and the spec expanders), the plan differ    *)
(* (diffSpecs / UpdatePlan) and the rollout materializer (createPipeline). *)
(*                                                                         *)
(* Resource names ("instances/i1/databases/db1") are tuples of their       *)
(* slash-separated tokens; a nil pointer is the record whose UID is 0; a   *)
(* nil error is the empty string.  Task names and titles (synthesized      *)
(* display strings) are left out of the records.                           *)
(***************************************************************************)
EXTENDS Integers, Sequences, FiniteSets, TLC

VARIABLES
    sheets,      \* store: sheet rows, in creation order (UID = index)
    pipelines,   \* store: pipeline rows (ID = index)
    stages,      \* store: stage rows (ID = index)
    tasks,       \* store: task rows (ID = index)
    taskDAGs,    \* store: task_dag rows, in creation order
    issues,      \* store: issue rows
    plans,       \* store: plan rows (UID = index)
    drafts,      \* history: the PipelineCreate handed to createPipeline, per pipeline ID
    calls,       \* history: how many calls were made
    world,       \* the license features and what the lower_case_table_names probe meets
    call,        \* the request of the last call (operation and arguments)
    ret          \* the response of the last call

vars == <<sheets, pipelines, stages, tasks, taskDAGs, issues, plans, drafts, calls, world, call, ret>>

storeVars == <<sheets, pipelines, stages, tasks, taskDAGs, issues, plans, drafts>>

-----------------------------------------------------------------------------
(* Bounds of the model *)

\* most steps in one submitted plan
MaxSteps == 2

\* most specs in one submitted plan, over all its steps
MaxSpecs == 3

-----------------------------------------------------------------------------
(* Sequence helpers *)

Range(s) == { s[i] : i \in DOMAIN s }

RECURSIVE SumSeq(_)
SumSeq(s) == IF s = <<>> THEN 0 ELSE Head(s) + SumSeq(Tail(s))

RECURSIVE Flatten(_)
Flatten(ss) == IF ss = <<>> THEN <<>> ELSE Head(ss) \o Flatten(Tail(ss))

-----------------------------------------------------------------------------
(* External collaborators: typed lookups of the store, with a fixed world *)

NoError == ""

Environments ==
    [ e1 |-> [UID |-> 1, ResourceID |-> "e1"],
      e2 |-> [UID |-> 2, ResourceID |-> "e2"] ]

NilEnvironment == [UID |-> 0, ResourceID |-> ""]

GetEnvironmentV2(resourceID) ==
    IF resourceID \in DOMAIN Environments THEN Environments[resourceID] ELSE NilEnvironment

Instances ==
    [ i1 |-> [UID |-> 1, ResourceID |-> "i1", EnvironmentID |-> "e1", Engine |-> "MYSQL",
              AdminUsername |-> "root", HasAdmin |-> TRUE],
      i2 |-> [UID |-> 2, ResourceID |-> "i2", EnvironmentID |-> "e2", Engine |-> "POSTGRES",
              AdminUsername |-> "postgres", HasAdmin |-> TRUE],
      i3 |-> [UID |-> 3, ResourceID |-> "i3", EnvironmentID |-> "e1", Engine |-> "ORACLE",
              AdminUsername |-> "sys", HasAdmin |-> TRUE],
      i4 |-> [UID |-> 4, ResourceID |-> "i4", EnvironmentID |-> "e2", Engine |-> "MONGODB",
              AdminUsername |-> "admin", HasAdmin |-> TRUE] ]

NilInstance == [UID |-> 0, ResourceID |-> "", EnvironmentID |-> "", Engine |-> "",
                AdminUsername |-> "", HasAdmin |-> FALSE]

GetInstanceV2(resourceID) ==
    IF resourceID \in DOMAIN Instances THEN Instances[resourceID] ELSE NilInstance

Databases ==
    { [UID |-> 1, InstanceID |-> "i1", DatabaseName |-> "db1", EnvironmentID |-> "e1", ProjectID |-> "p1"],
      [UID |-> 2, InstanceID |-> "i2", DatabaseName |-> "db2", EnvironmentID |-> "e2", ProjectID |-> "p1"],
      [UID |-> 3, InstanceID |-> "i1", DatabaseName |-> "db3", EnvironmentID |-> "e1", ProjectID |-> "p2"] }

NilDatabase == [UID |-> 0, InstanceID |-> "", DatabaseName |-> "", EnvironmentID |-> "", ProjectID |-> ""]

GetDatabaseV2(instanceID, databaseName) ==
    LET found == { d \in Databases : d.InstanceID = instanceID /\ d.DatabaseName = databaseName }
    IN  IF found = {} THEN NilDatabase ELSE CHOOSE d \in found : TRUE

\* backups of the store, by (database UID, backup name)
Backups == { [UID |-> 1, DatabaseUID |-> 1, Name |-> "bk1"] }

NilBackup == [UID |-> 0, DatabaseUID |-> 0, Name |-> ""]

GetBackupV2(databaseUID, name) ==
    LET found == { b \in Backups : b.DatabaseUID = databaseUID /\ b.Name = name }
    IN  IF found = {} THEN NilBackup ELSE CHOOSE b \in found : TRUE

\* the sheets users created before the first call: UIDs 1 and 2
UserSheets == << [UID |-> 1, Statement |-> <<"user sql 1">>, Source |-> "USER"],
                 [UID |-> 2, Statement |-> <<"user sql 2">>, Source |-> "USER"] >>

GetSheetV2(sheetRows, uid) == uid \in { sheetRows[i].UID : i \in DOMAIN sheetRows }

\* the project every call is made for
TheProject == [UID |-> 1, ResourceID |-> "p1", TenantMode |-> "DISABLED"]

\* every feature licensed, and a probe that answers lower_case_table_names = 1
TheWorld == [Features |-> {"TaskScheduleTime", "MultiTenancy"}, Probe |-> "1"]

\* the worlds a call can run in: the probe answers 1, answers 0, or fails at the
\* admin driver or at the query
Worlds ==
    { [TheWorld EXCEPT !.Probe = probe] : probe \in {"1", "0", "driver failed", "query failed"} }

IsFeatureEnabled(w, feature) == feature \in w.Features

-----------------------------------------------------------------------------
(* Resource names and number parsing *)

\* optional values (Go pointers and optional messages): <<>> is nil, <<x>> is set
Nil == <<>>

Some(x) == <<x>>

IsNil(o) == o = <<>>

\* "instances/{instance}"
getInstanceID(name) ==
    IF Len(name) = 2 /\ name[1] = "instances" /\ name[2] # ""
    THEN [instanceID |-> name[2], err |-> NoError]
    ELSE [instanceID |-> "", err |-> "invalid instance name"]

\* "instances/{instance}/databases/{database}"
getInstanceDatabaseID(name) ==
    IF Len(name) = 4 /\ name[1] = "instances" /\ name[3] = "databases" /\ name[2] # "" /\ name[4] # ""
    THEN [instanceID |-> name[2], databaseName |-> name[4], err |-> NoError]
    ELSE [instanceID |-> "", databaseName |-> "", err |-> "invalid database name"]

\* "instances/{instance}/databases/{database}/backups/{backup}"
getInstanceDatabaseIDBackupName(name) ==
    IF Len(name) = 6 /\ name[1] = "instances" /\ name[3] = "databases" /\ name[5] = "backups"
       /\ name[2] # "" /\ name[4] # "" /\ name[6] # ""
    THEN [instanceID |-> name[2], databaseName |-> name[4], backupName |-> name[6], err |-> NoError]
    ELSE [instanceID |-> "", databaseName |-> "", backupName |-> "", err |-> "invalid backup name"]

\* "projects/{project}/sheets/{sheet}": the project resource id first, the sheet id second
getProjectResourceIDSheetID(name) ==
    IF Len(name) = 4 /\ name[1] = "projects" /\ name[3] = "sheets" /\ name[2] # "" /\ name[4] # ""
    THEN [project |-> name[2], sheet |-> name[4], err |-> NoError]
    ELSE [project |-> "", sheet |-> "", err |-> "invalid sheet name"]

\* the decimal numerals among the tokens of the model
NumeralOf == ("1" :> 1) @@ ("2" :> 2) @@ ("3" :> 3) @@ ("4" :> 4) @@ ("9" :> 9)

\* strconv.Atoi: the number a numeral denotes, an error for any other token
Atoi(s) ==
    IF s \in DOMAIN NumeralOf THEN [n |-> NumeralOf[s], err |-> NoError]
    ELSE [n |-> 0, err |-> "invalid syntax"]

\* strings.ToUpper and strings.ToLower on the database names of the model
ToUpper(s) ==
    CASE s \in {"shop", "Shop", "SHOP"} -> "SHOP"
      [] OTHER -> s

ToLower(s) ==
    CASE s \in {"shop", "Shop", "SHOP"} -> "shop"
      [] OTHER -> s

-----------------------------------------------------------------------------
(* Statement generator *)

\* a check that takes every engine with every value
checkNothing(dbType, characterSet, collation, owner) == NoError

\* checkCharacterSetCollationOwner: the error, NoError when the values are legal
checkCharacterSetCollationOwner(dbType, characterSet, collation, owner) ==
    CASE dbType \in {"SPANNER", "CLICKHOUSE", "SNOWFLAKE"} ->
            IF characterSet # "" THEN "does not support character set"
            ELSE IF collation # "" THEN "does not support collation"
            ELSE NoError
      [] dbType \in {"POSTGRES", "REDSHIFT"} ->
            IF owner = "" THEN "database owner is required" ELSE NoError
      [] dbType \in {"SQLITE", "MONGODB", "MSSQL"} -> NoError
      [] OTHER ->
            IF characterSet = "" THEN "character set missing"
            ELSE IF collation = "" THEN "collation missing"
            ELSE NoError

\* api.DatabaseLabelSizeMax: each database can have up to four labels
DatabaseLabelSizeMax == 4

\* convertDatabaseLabels, on the number of labels of the map
convertDatabaseLabels(labels) ==
    IF labels = 0 THEN [json |-> 0, err |-> NoError]
    ELSE IF labels > DatabaseLabelSizeMax THEN [json |-> 0, err |-> "database labels are up to a maximum"]
    ELSE [json |-> labels, err |-> NoError]

\* getCreateDatabaseStatement: the statement as the sequence of its parts
getCreateDatabaseStatement(dbType, c, databaseName, adminDatasourceUser) ==
    CASE dbType \in {"MYSQL", "TIDB", "MARIADB", "OCEANBASE"} ->
            [stmt |-> <<"CREATE DATABASE", databaseName, "CHARACTER SET", c.CharacterSet,
                        "COLLATE", c.Collation>>, err |-> NoError]
      [] dbType = "MSSQL" ->
            [stmt |-> <<"CREATE DATABASE", databaseName>>, err |-> NoError]
      [] dbType = "POSTGRES" ->
            LET grant == IF adminDatasourceUser # "" /\ c.Owner # adminDatasourceUser
                         THEN <<"GRANT", c.Owner, "TO", adminDatasourceUser>> ELSE <<>>
                create == IF c.Collation = ""
                          THEN <<"CREATE DATABASE", databaseName, "ENCODING", c.CharacterSet>>
                          ELSE <<"CREATE DATABASE", databaseName, "ENCODING", c.CharacterSet,
                                 "LC_COLLATE", c.Collation>>
            IN  [stmt |-> grant \o create \o <<"ALTER DATABASE", databaseName, "OWNER TO", c.Owner>>,
                 err |-> NoError]
      [] dbType = "CLICKHOUSE" ->
            [stmt |-> <<"CREATE DATABASE", databaseName>>
                      \o (IF c.Cluster # "" THEN <<"ON CLUSTER", c.Cluster>> ELSE <<>>),
             err |-> NoError]
      [] dbType \in {"SNOWFLAKE", "SQLITE", "SPANNER", "ORACLE"} ->
            [stmt |-> <<"CREATE DATABASE", databaseName>>, err |-> NoError]
      [] dbType = "MONGODB" ->
            [stmt |-> <<"db.createCollection", c.Table>>, err |-> NoError]
      [] dbType = "REDSHIFT" ->
            [stmt |-> <<"CREATE DATABASE", databaseName>>
                      \o (IF adminDatasourceUser # "" /\ c.Owner # adminDatasourceUser
                          THEN <<"WITH", "OWNER", c.Owner>> ELSE <<>>),
             err |-> NoError]
      [] OTHER -> [stmt |-> <<>>, err |-> "unsupported database type"]

\* store.CreateSheetV2: the rows with the new sheet appended, its UID the next serial
CreateSheetV2(sheetRows, statement) ==
    Append(sheetRows, [UID |-> Len(sheetRows) + 1, Statement |-> statement, Source |-> "BYTEBASE_ARTIFACT"])

-----------------------------------------------------------------------------
(* Plan specs (v1pb.Plan_Spec) and task drafts (api.TaskCreate) *)

CreateDatabaseConfig(target, database) ==
    [Target |-> target, Database |-> database, Table |-> "", CharacterSet |-> "utf8mb4",
     Collation |-> "utf8mb4_general_ci", Cluster |-> "", Owner |-> "", Backup |-> "", Labels |-> 0]

ChangeDatabaseConfig(target, sheet, type) ==
    [Target |-> target, Sheet |-> sheet, Type |-> type, SchemaVersion |-> "v1",
     RollbackEnabled |-> FALSE, RollbackDetail |-> Nil]

\* Source is nil, or Some of [kind |-> "Backup" or "PointInTime", Backup, PointInTime]
RestoreDatabaseConfig(target, source, createDatabaseConfig) ==
    [Target |-> target, Source |-> source, CreateDatabaseConfig |-> createDatabaseConfig]

\* Config is "CreateDatabaseConfig", "ChangeDatabaseConfig", "RestoreDatabaseConfig" or "nil"
\* EarliestAllowedTime is nil, or Some of the seconds of the timestamp
PlanSpec(id, config, value) ==
    [Id |-> id, EarliestAllowedTime |-> Nil, Config |-> config, Value |-> value]

\* the zero value of the task payload structs, as the JSON of the payload reads back
EmptyPayload ==
    [SpecID |-> "", SheetID |-> 0, SchemaVersion |-> "", Skipped |-> FALSE,
     RollbackEnabled |-> FALSE, RollbackSQLStatus |-> "", RollbackFromIssueID |-> 0,
     RollbackFromTaskID |-> 0, RollbackSheetID |-> 0, ProjectID |-> 0, DatabaseName |-> "", CharacterSet |-> "",
     Collation |-> "", TableName |-> "", Labels |-> 0,
     BackupID |-> Nil, PointInTimeTs |-> Nil, TargetInstanceID |-> Nil, TargetDatabaseName |-> Nil]

\* api.TaskPendingApproval and api.TaskPending, two of the task statuses
TaskPendingApproval == "PENDING_APPROVAL"

TaskPending == "PENDING"

\* an api.TaskCreate literal: every field is given where the literal is written
TaskCreate(instanceID, databaseID, status, type, payload, earliestAllowedTs) ==
    [InstanceID |-> instanceID, DatabaseID |-> databaseID, Status |-> status,
     Type |-> type, DatabaseName |-> "", Payload |-> payload, EarliestAllowedTs |-> earliestAllowedTs]

\* what an expander returns: the task drafts, the local edges, the error, and the
\* state it leaves behind (the environment registered for the stage, the sheet rows,
\* and arg, the config or spec it was handed as it left it)
Expanded(taskCreates, taskIndexDAGs, env, sheetRows, arg) ==
    [tasks |-> taskCreates, dags |-> taskIndexDAGs, err |-> NoError,
     env |-> env, sheets |-> sheetRows, arg |-> arg]

Failed(err, env, sheetRows, arg) ==
    [tasks |-> <<>>, dags |-> <<>>, err |-> err, env |-> env, sheets |-> sheetRows, arg |-> arg]

\* Timestamp.GetSeconds, 0 on a nil timestamp
GetSeconds(ts) == IF IsNil(ts) THEN 0 ELSE ts[1]

\* the seconds of Go's zero time.Time (January 1, year 1), the only time IsZero
\* accepts: -62135596800, which stands here as -62 (the integers of TLC have 32 bits)
ZeroTimeSeconds == -62

IsZeroTime(ts) == ts[1] = ZeroTimeSeconds

\* a variant of registerEnvironmentID that keeps the first environment and never
\* compares a later one with it
registerEnvironmentIDUnchecked(stageEnvironmentID, environmentID) ==
    [env |-> IF stageEnvironmentID = "" THEN environmentID ELSE stageEnvironmentID, err |-> NoError]

\* the closure registerEnvironmentID of getPipelineCreate, on the stage's environment
registerEnvironmentID(stageEnvironmentID, environmentID) ==
    IF stageEnvironmentID = "" THEN [env |-> environmentID, err |-> NoError]
    ELSE IF stageEnvironmentID # environmentID
         THEN [env |-> stageEnvironmentID, err |-> "expect only one environment in a stage"]
         ELSE [env |-> stageEnvironmentID, err |-> NoError]

-----------------------------------------------------------------------------
(* Spec expander *)

\* a variant of resolveDatabaseName that takes the MySQL family to lower case whatever
\* the probe answers
resolveDatabaseNameLower(w, engine, database) ==
    CASE engine = "SNOWFLAKE" -> ToUpper(database)
      [] engine \in {"MYSQL", "MARIADB", "OCEANBASE"} -> ToLower(database)
      [] OTHER -> database

\* the database name the create statement uses: upper case for Snowflake, and for the
\* MySQL family lower case when the lower_case_table_names probe succeeds and answers 1
resolveDatabaseName(w, engine, database) ==
    CASE engine = "SNOWFLAKE" -> ToUpper(database)
      [] engine \in {"MYSQL", "MARIADB", "OCEANBASE"} ->
            IF w.Probe = "1" THEN ToLower(database) ELSE database
      [] OTHER -> database

\* a variant of createDatabaseSheet on a store that refuses a second sheet with the
\* statement of one it already holds
createDatabaseSheetOnce(sheetRows, statement) ==
    IF \E i \in 1..Len(sheetRows) : sheetRows[i].Statement = statement
    THEN [sheets |-> sheetRows, uid |-> 0, err |-> "failed to create database creation sheet"]
    ELSE [sheets |-> CreateSheetV2(sheetRows, statement), uid |-> Len(sheetRows) + 1, err |-> NoError]

\* the sheet of the create statement: every call creates a new one, whatever sheets the
\* store holds, and the task's payload takes its UID
createDatabaseSheet(sheetRows, statement) ==
    LET created == CreateSheetV2(sheetRows, statement)
    IN  [sheets |-> created, uid |-> created[Len(created)].UID, err |-> NoError]

\* a variant of the expander without the checks of the engine: Oracle, and MongoDB
\* without a collection
getTaskCreatesFromCreateDatabaseConfigAnyEngine(w, project, spec, c, env, sheetRows) ==
    LET id == getInstanceID(c.Target)
        instance == GetInstanceV2(id.instanceID)
        environment == GetEnvironmentV2(instance.EnvironmentID)
        reg == registerEnvironmentID(env, environment.ResourceID)
        c2 == IF instance.Engine = "SNOWFLAKE" THEN [c EXCEPT !.Database = ToUpper(c.Database)] ELSE c
        labels == convertDatabaseLabels(c.Labels)
        databaseName == resolveDatabaseName(w, instance.Engine, c2.Database)
        statement == getCreateDatabaseStatement(instance.Engine, c2, databaseName, instance.AdminUsername)
        sheet == createDatabaseSheet(sheetRows, statement.stmt)
        payload == [EmptyPayload EXCEPT !.SpecID = spec.Id, !.ProjectID = project.UID,
                        !.CharacterSet = c2.CharacterSet, !.TableName = c2.Table,
                        !.Collation = c2.Collation, !.Labels = labels.json,
                        !.DatabaseName = databaseName, !.SheetID = sheet.uid]
    IN  IF c.Database = "" THEN Failed("database name is required", env, sheetRows, c)
        ELSE IF id.err # NoError THEN Failed(id.err, env, sheetRows, c)
        ELSE IF instance.UID = 0 THEN Failed("instance ID not found", env, sheetRows, c)
        ELSE IF environment.UID = 0 THEN Failed("environment ID not found", env, sheetRows, c)
        ELSE IF reg.err # NoError THEN Failed(reg.err, env, sheetRows, c)
        ELSE IF checkCharacterSetCollationOwner(instance.Engine, c.CharacterSet, c.Collation, c.Owner) # NoError
             THEN Failed(checkCharacterSetCollationOwner(instance.Engine, c.CharacterSet, c.Collation, c.Owner),
                         reg.env, sheetRows, c)
        ELSE IF labels.err # NoError THEN Failed(labels.err, reg.env, sheetRows, c2)
        ELSE IF project.TenantMode = "TENANT" /\ ~IsFeatureEnabled(w, "MultiTenancy")
             THEN Failed("feature MultiTenancy is not available", reg.env, sheetRows, c2)
        ELSE IF ~instance.HasAdmin THEN Failed("admin data source not found", reg.env, sheetRows, c2)
        ELSE IF statement.err # NoError THEN Failed(statement.err, reg.env, sheetRows, c2)
        ELSE IF sheet.err # NoError THEN Failed(sheet.err, reg.env, sheetRows, c2)
        ELSE Expanded(<< [TaskCreate(instance.UID, 0, TaskPendingApproval, "DATABASE_CREATE", payload,
                                     GetSeconds(spec.EarliestAllowedTime))
                            EXCEPT !.DatabaseName = databaseName] >>,
                      <<>>, reg.env, sheet.sheets, c2)

getTaskCreatesFromCreateDatabaseConfig(w, project, spec, c, env, sheetRows) ==
    LET id == getInstanceID(c.Target)
        instance == GetInstanceV2(id.instanceID)
        environment == GetEnvironmentV2(instance.EnvironmentID)
        reg == registerEnvironmentID(env, environment.ResourceID)
        c2 == IF instance.Engine = "SNOWFLAKE" THEN [c EXCEPT !.Database = ToUpper(c.Database)] ELSE c
        labels == convertDatabaseLabels(c.Labels)
        databaseName == resolveDatabaseName(w, instance.Engine, c2.Database)
        statement == getCreateDatabaseStatement(instance.Engine, c2, databaseName, instance.AdminUsername)
        sheet == createDatabaseSheet(sheetRows, statement.stmt)
        payload == [EmptyPayload EXCEPT !.SpecID = spec.Id, !.ProjectID = project.UID,
                        !.CharacterSet = c2.CharacterSet, !.TableName = c2.Table,
                        !.Collation = c2.Collation, !.Labels = labels.json,
                        !.DatabaseName = databaseName, !.SheetID = sheet.uid]
    IN  IF c.Database = "" THEN Failed("database name is required", env, sheetRows, c)
        ELSE IF id.err # NoError THEN Failed(id.err, env, sheetRows, c)
        ELSE IF instance.UID = 0 THEN Failed("instance ID not found", env, sheetRows, c)
        ELSE IF instance.Engine = "ORACLE" THEN Failed("creating Oracle database is not supported", env, sheetRows, c)
        ELSE IF environment.UID = 0 THEN Failed("environment ID not found", env, sheetRows, c)
        ELSE IF reg.err # NoError THEN Failed(reg.err, env, sheetRows, c)
        ELSE IF instance.Engine = "MONGODB" /\ c.Table = ""
             THEN Failed("collection name is required for MongoDB", reg.env, sheetRows, c)
        ELSE IF checkCharacterSetCollationOwner(instance.Engine, c.CharacterSet, c.Collation, c.Owner) # NoError
             THEN Failed(checkCharacterSetCollationOwner(instance.Engine, c.CharacterSet, c.Collation, c.Owner),
                         reg.env, sheetRows, c)
        ELSE IF labels.err # NoError THEN Failed(labels.err, reg.env, sheetRows, c2)
        ELSE IF project.TenantMode = "TENANT" /\ ~IsFeatureEnabled(w, "MultiTenancy")
             THEN Failed("feature MultiTenancy is not available", reg.env, sheetRows, c2)
        ELSE IF ~instance.HasAdmin THEN Failed("admin data source not found", reg.env, sheetRows, c2)
        ELSE IF statement.err # NoError THEN Failed(statement.err, reg.env, sheetRows, c2)
        ELSE IF sheet.err # NoError THEN Failed(sheet.err, reg.env, sheetRows, c2)
        ELSE Expanded(<< [TaskCreate(instance.UID, 0, TaskPendingApproval, "DATABASE_CREATE", payload,
                                     GetSeconds(spec.EarliestAllowedTime))
                            EXCEPT !.DatabaseName = databaseName] >>,
                      <<>>, reg.env, sheet.sheets, c2)

\* the sheet a ChangeDatabaseConfig names: its id parsed, and looked up in the store
resolveSheet(sheetRows, sheetName) ==
    LET parsed == getProjectResourceIDSheetID(sheetName)
        sheetID == Atoi(parsed.sheet)
    IN  IF parsed.err # NoError THEN [sheetID |-> 0, err |-> "failed to get sheet id from sheet"]
        ELSE IF sheetID.err # NoError THEN [sheetID |-> 0, err |-> "failed to convert sheet id to int"]
        ELSE IF ~GetSheetV2(sheetRows, sheetID.n) THEN [sheetID |-> 0, err |-> "sheet not found"]
        ELSE [sheetID |-> sheetID.n, err |-> NoError]

\* "projects/{project}/reviews/{review}"
getReviewID(name) ==
    IF Len(name) = 4 /\ name[1] = "projects" /\ name[3] = "reviews" /\ Atoi(name[4]).err = NoError
    THEN [id |-> Atoi(name[4]).n, err |-> NoError]
    ELSE [id |-> 0, err |-> "invalid review name"]

\* "projects/{project}/rollouts/{rollout}/stages/{stage}/tasks/{task}"
getTaskID(name) ==
    IF Len(name) = 8 /\ name[1] = "projects" /\ name[3] = "rollouts" /\ name[5] = "stages"
       /\ name[7] = "tasks" /\ Atoi(name[8]).err = NoError
    THEN [id |-> Atoi(name[8]).n, err |-> NoError]
    ELSE [id |-> 0, err |-> "invalid task name"]

\* a variant of ghostTaskIndexDAGList with the edge turned around
ghostTaskIndexDAGListReversed == << [FromIndex |-> 1, ToIndex |-> 0] >>

\* the local edges of a gh-ost migration: task "sync" blocks task "cutover"
ghostTaskIndexDAGList == << [FromIndex |-> 0, ToIndex |-> 1] >>

\* a rollback status that says the rollback statement is already there
RollbackSQLStatusDone == "DONE"

\* api.RollbackSQLStatusPending, the rollback status of a new data update task
RollbackSQLStatusPending == "PENDING"

getTaskCreatesFromChangeDatabaseConfig(spec, c, env, sheetRows) ==
    LET id == getInstanceDatabaseID(c.Target)
        instance == GetInstanceV2(id.instanceID)
        database == GetDatabaseV2(id.instanceID, id.databaseName)
        reg == registerEnvironmentID(env, database.EnvironmentID)
        sheet == resolveSheet(sheetRows, c.Sheet)
        ts == GetSeconds(spec.EarliestAllowedTime)
        one(type, payload) ==
            Expanded(<<TaskCreate(instance.UID, database.UID, TaskPendingApproval, type, payload, ts)>>, <<>>,
                     reg.env, sheetRows, c)
    IN  IF id.err # NoError THEN Failed(id.err, env, sheetRows, c)
        ELSE IF instance.UID = 0 THEN Failed("instance not found", env, sheetRows, c)
        ELSE IF database.UID = 0 THEN Failed("database not found", env, sheetRows, c)
        ELSE IF reg.err # NoError THEN Failed(reg.err, env, sheetRows, c)
        ELSE CASE c.Type = "BASELINE" ->
                    one("DATABASE_SCHEMA_BASELINE",
                        [EmptyPayload EXCEPT !.SpecID = spec.Id, !.SchemaVersion = c.SchemaVersion])
               [] c.Type = "MIGRATE" ->
                    IF sheet.err # NoError THEN Failed(sheet.err, reg.env, sheetRows, c)
                    ELSE one("DATABASE_SCHEMA_UPDATE",
                             [EmptyPayload EXCEPT !.SpecID = spec.Id, !.SheetID = sheet.sheetID,
                                                  !.SchemaVersion = c.SchemaVersion])
               [] c.Type = "MIGRATE_SDL" ->
                    IF sheet.err # NoError THEN Failed(sheet.err, reg.env, sheetRows, c)
                    ELSE one("DATABASE_SCHEMA_UPDATE_SDL",
                             [EmptyPayload EXCEPT !.SheetID = sheet.sheetID,
                                                  !.SchemaVersion = c.SchemaVersion])
               [] c.Type = "MIGRATE_GHOST" ->
                    IF sheet.err # NoError THEN Failed(sheet.err, reg.env, sheetRows, c)
                    ELSE Expanded(
                           << TaskCreate(instance.UID, database.UID, TaskPendingApproval, "DATABASE_SCHEMA_UPDATE_GHOST_SYNC",
                                  [EmptyPayload EXCEPT !.SpecID = spec.Id, !.SheetID = sheet.sheetID,
                                                       !.SchemaVersion = c.SchemaVersion], ts),
                              TaskCreate(instance.UID, database.UID, TaskPendingApproval, "DATABASE_SCHEMA_UPDATE_GHOST_CUTOVER",
                                  [EmptyPayload EXCEPT !.SpecID = spec.Id], ts) >>,
                           ghostTaskIndexDAGList, reg.env, sheetRows, c)
               [] c.Type = "DATA" ->
                    LET review == IF IsNil(c.RollbackDetail) THEN [id |-> 0, err |-> NoError]
                                  ELSE getReviewID(c.RollbackDetail[1].RollbackFromReview)
                        task == IF IsNil(c.RollbackDetail) THEN [id |-> 0, err |-> NoError]
                                ELSE getTaskID(c.RollbackDetail[1].RollbackFromTask)
                    IN  IF sheet.err # NoError THEN Failed(sheet.err, reg.env, sheetRows, c)
                        ELSE IF review.err # NoError THEN Failed(review.err, reg.env, sheetRows, c)
                        ELSE IF task.err # NoError THEN Failed(task.err, reg.env, sheetRows, c)
                        ELSE one("DATABASE_DATA_UPDATE",
                                 [EmptyPayload EXCEPT !.SheetID = sheet.sheetID,
                                      !.SchemaVersion = c.SchemaVersion,
                                      !.RollbackEnabled = c.RollbackEnabled,
                                      !.RollbackSQLStatus = RollbackSQLStatusPending,
                                      !.RollbackFromIssueID = review.id,
                                      !.RollbackFromTaskID = task.id])
               [] OTHER -> Failed("unsupported change database config type", reg.env, sheetRows, c)

\* a variant of restoreSource that leaves the payload as it was
restoreSourceKeepsNothing(payload, source) == [payload |-> payload, err |-> NoError]

\* the restore payload's source, from the Source oneof of a RestoreDatabaseConfig
restoreSource(payload, source) ==
    IF source.kind = "Backup"
    THEN LET name == getInstanceDatabaseIDBackupName(source.Backup)
             backupDatabase == GetDatabaseV2(name.instanceID, name.databaseName)
             backup == GetBackupV2(backupDatabase.UID, name.backupName)
         IN  IF name.err # NoError THEN [payload |-> payload, err |-> "failed to parse backup name"]
             ELSE IF backupDatabase.UID = 0 THEN [payload |-> payload, err |-> "failed to find database of backup"]
             ELSE IF backup.UID = 0 THEN [payload |-> payload, err |-> "failed to find backup"]
             ELSE [payload |-> [payload EXCEPT !.BackupID = Some(backup.UID)], err |-> NoError]
    ELSE IF source.kind = "PointInTime"
    THEN [payload |-> [payload EXCEPT !.PointInTimeTs = Some(source.PointInTime)], err |-> NoError]
    ELSE [payload |-> payload, err |-> NoError]

\* a variant of restoreTaskIndexDAGs with no edge
restoreTaskIndexDAGsNone == <<>>

\* the local edges of a restore: the first task blocks the second
restoreTaskIndexDAGs == << [FromIndex |-> 0, ToIndex |-> 1] >>

\* a variant of cutoverTaskCreate whose task needs no approval
cutoverTaskCreatePending(instance, database) ==
    TaskCreate(instance.UID, database.UID, TaskPending, "DATABASE_RESTORE_CUTOVER", EmptyPayload, 0)

\* task 2 of an in-place restore: swap the restored and the original database
cutoverTaskCreate(instance, database) ==
    TaskCreate(instance.UID, database.UID, TaskPendingApproval, "DATABASE_RESTORE_CUTOVER", EmptyPayload, 0)

getTaskCreatesFromRestoreDatabaseConfig(w, project, spec, c, env, sheetRows) ==
    LET id == getInstanceDatabaseID(c.Target)
        instance == GetInstanceV2(id.instanceID)
        database == GetDatabaseV2(id.instanceID, id.databaseName)
        reg == registerEnvironmentID(env, database.EnvironmentID)
        restorePayload == [EmptyPayload EXCEPT !.ProjectID = project.UID]
        dag == restoreTaskIndexDAGs
    IN  IF IsNil(c.Source) THEN Failed("missing source in restore database config", env, sheetRows, c)
        ELSE IF id.err # NoError THEN Failed(id.err, env, sheetRows, c)
        ELSE IF instance.UID = 0 THEN Failed("instance not found", env, sheetRows, c)
        ELSE IF database.UID = 0 THEN Failed("database not found", env, sheetRows, c)
        ELSE IF database.ProjectID # project.ResourceID THEN Failed("database is not in project", env, sheetRows, c)
        ELSE IF reg.err # NoError THEN Failed(reg.err, env, sheetRows, c)
        ELSE IF ~IsNil(c.CreateDatabaseConfig)
        THEN \* restore to a new database
             LET targetID == getInstanceID(c.CreateDatabaseConfig[1].Target)
                 targetInstance == GetInstanceV2(targetID.instanceID)
                 src == restoreSource(restorePayload, c.Source[1])
                 restoreTo(created) ==
                    LET c2 == [c EXCEPT !.CreateDatabaseConfig = Some(created.arg)]
                        payload == [src.payload EXCEPT !.TargetInstanceID = Some(targetInstance.UID),
                                                      !.TargetDatabaseName = Some(created.arg.Database)]
                    IN  IF created.err # NoError THEN Failed(created.err, created.env, created.sheets, c2)
                        ELSE IF Len(created.tasks) # 1
                             THEN Failed("expected 1 task to create the database", created.env, created.sheets, c2)
                        ELSE IF src.err # NoError THEN Failed(src.err, created.env, created.sheets, c2)
                        ELSE Expanded(<< created.tasks[1],
                                         TaskCreate(instance.UID, database.UID, TaskPendingApproval, "DATABASE_RESTORE_RESTORE", payload, 0) >>,
                                      dag, created.env, created.sheets, c2)
             IN  IF targetID.err # NoError THEN Failed(targetID.err, reg.env, sheetRows, c)
                 ELSE restoreTo(getTaskCreatesFromCreateDatabaseConfig(
                                  w, project, spec, c.CreateDatabaseConfig[1], reg.env, sheetRows))
        ELSE \* in-place restore
             LET src == restoreSource(restorePayload, c.Source[1])
             IN  IF src.err # NoError THEN Failed(src.err, reg.env, sheetRows, c)
                 ELSE Expanded(<< TaskCreate(instance.UID, database.UID, TaskPendingApproval, "DATABASE_RESTORE_RESTORE", src.payload, 0),
                                  cutoverTaskCreate(instance, database) >>,
                               dag, reg.env, sheetRows, c)

\* re-wrap an expander's result so that arg is the whole spec
withSpec(spec, r) == [r EXCEPT !.arg = [spec EXCEPT !.Value = r.arg]]

getTaskCreatesFromSpec(w, project, spec, env, sheetRows) ==
    IF ~IsFeatureEnabled(w, "TaskScheduleTime")
       /\ ~IsNil(spec.EarliestAllowedTime) /\ ~IsZeroTime(spec.EarliestAllowedTime)
    THEN Failed("feature TaskScheduleTime is not available", env, sheetRows, spec)
    ELSE CASE spec.Config = "CreateDatabaseConfig" ->
                withSpec(spec, getTaskCreatesFromCreateDatabaseConfig(w, project, spec, spec.Value, env, sheetRows))
           [] spec.Config = "ChangeDatabaseConfig" ->
                withSpec(spec, getTaskCreatesFromChangeDatabaseConfig(spec, spec.Value, env, sheetRows))
           [] spec.Config = "RestoreDatabaseConfig" ->
                withSpec(spec, getTaskCreatesFromRestoreDatabaseConfig(w, project, spec, spec.Value, env, sheetRows))
           [] OTHER -> Failed("invalid spec config type", env, sheetRows, spec)

-----------------------------------------------------------------------------
(* Stage compiler and plan compiler *)

\* the edges of one spec moved into the index space of the stage
shiftTaskIndexDAGs(taskIndexDAGCreates, offset) ==
    [ i \in DOMAIN taskIndexDAGCreates |->
        [FromIndex |-> taskIndexDAGCreates[i].FromIndex + offset,
         ToIndex   |-> taskIndexDAGCreates[i].ToIndex + offset] ]

\* a variant of appendToStage that puts the tasks of the spec before those of the stage
appendToStageInFront(stageCreate, taskCreates, taskIndexDAGCreates) ==
    [stageCreate EXCEPT
        !.TaskList = taskCreates \o stageCreate.TaskList,
        !.TaskIndexDAGList = stageCreate.TaskIndexDAGList
                               \o shiftTaskIndexDAGs(taskIndexDAGCreates, Len(stageCreate.TaskList)
                                                                            + Len(taskCreates))]

\* the stage after one more spec was expanded into taskCreates and taskIndexDAGCreates:
\* the tasks are appended first, and the offset is the length of the list after that
appendToStage(stageCreate, taskCreates, taskIndexDAGCreates) ==
    LET taskList == stageCreate.TaskList \o taskCreates
        offset == Len(taskList)
    IN  [stageCreate EXCEPT
            !.TaskList = taskList,
            !.TaskIndexDAGList = stageCreate.TaskIndexDAGList
                                   \o shiftTaskIndexDAGs(taskIndexDAGCreates, offset)]

EmptyStage == [EnvironmentID |-> 0, TaskList |-> <<>>, TaskIndexDAGList |-> <<>>]

\* the local variables of getPipelineCreate when it is called on steps: i and j are
\* the step and the spec the loops are at, stage the stage of step i built so far, env
\* the environment registered for it, specs the specs of step i as the expanders left
\* them, origins the history of which spec each task of the stage was expanded from;
\* StageList, Origins and out are the same of the steps that are closed
CompileStart(steps) ==
    [steps |-> steps, i |-> 1, j |-> 1, stage |-> EmptyStage, env |-> "", specs |-> <<>>,
     origins |-> <<>>, StageList |-> <<>>, Origins |-> <<>>, out |-> <<>>, err |-> NoError]

\* where getPipelineCreate stands: at the expansion of the next spec of the step, at
\* the environment lookup that closes the step, or at its return
compilePC(c) ==
    IF c.err # NoError THEN "failed"
    ELSE IF c.i > Len(c.steps) THEN "compiled"
    ELSE IF c.j <= Len(c.steps[c.i].Specs) THEN "getTaskCreatesFromSpec"
    ELSE "GetEnvironmentV2"

\* one turn of the loop over the specs of a step: the spec is expanded on the sheet
\* rows the store holds at this turn, and its tasks and edges are put into the stage
expandIntoStage(w, project, sheetRows, c) ==
    LET spec == c.steps[c.i].Specs[c.j]
        expanded(r) ==
            IF r.err # NoError
            THEN [frame |-> [c EXCEPT !.err = r.err], sheets |-> r.sheets]
            ELSE [frame |-> [c EXCEPT !.stage = appendToStage(c.stage, r.tasks, r.dags),
                                      !.env = r.env,
                                      !.specs = Append(c.specs, r.arg),
                                      !.origins = c.origins \o [ k \in 1..Len(r.tasks) |-> spec.Id ],
                                      !.j = c.j + 1],
                  sheets |-> r.sheets]
    IN  expanded(getTaskCreatesFromSpec(w, project, spec, c.env, sheetRows))

\* the end of a turn of the loop over the steps.  A step that registered no
\* environment makes GetEnvironmentV2 return nil, and reading environment.UID panics.
closeStage(c) ==
    LET environment == GetEnvironmentV2(c.env)
    IN  IF environment.UID = 0 THEN [c EXCEPT !.err = "panic: nil pointer dereference"]
        ELSE [c EXCEPT !.StageList = Append(c.StageList, [c.stage EXCEPT !.EnvironmentID = environment.UID]),
                       !.Origins = Append(c.Origins, c.origins),
                       !.out = Append(c.out, [Specs |-> c.specs]),
                       !.i = c.i + 1, !.j = 1,
                       !.stage = EmptyStage, !.env = "", !.specs = <<>>, !.origins = <<>>]

\* getPipelineCreate from one store call to the next: frame is the call after the
\* step, sheets the sheet rows the step leaves in the store
getPipelineCreateStep(w, project, sheetRows, c) ==
    IF compilePC(c) = "getTaskCreatesFromSpec" THEN expandIntoStage(w, project, sheetRows, c)
    ELSE [frame |-> closeStage(c), sheets |-> sheetRows]

\* getPipelineCreate has returned
Returned(c) == compilePC(c) \in {"failed", "compiled"}

\* the steps of the request as the call left them: those of the closed steps and of
\* the specs expanded as the expanders left them, the others as they were submitted
RequestOf(c) ==
    IF c.i > Len(c.steps) THEN c.out
    ELSE c.out
         \o << [Specs |-> c.specs \o SubSeq(c.steps[c.i].Specs, c.j, Len(c.steps[c.i].Specs))] >>
         \o SubSeq(c.steps, c.i + 1, Len(c.steps))

\* what getPipelineCreate returns from the frame it ended in: StageList is the
\* api.PipelineCreate (nil when err is set), steps the request as the call left it
PipelineCreateOf(c) ==
    IF c.err # NoError
    THEN [StageList |-> <<>>, Origins |-> <<>>, steps |-> RequestOf(c), err |-> c.err]
    ELSE [StageList |-> c.StageList, Origins |-> c.Origins, steps |-> c.out, err |-> NoError]

\* getPipelineCreate with no other call between its store calls
RECURSIVE getPipelineCreateFrom(_, _, _, _)
getPipelineCreateFrom(w, project, sheetRows, c) ==
    IF Returned(c) THEN PipelineCreateOf(c) @@ [sheets |-> sheetRows]
    ELSE LET next(r) == getPipelineCreateFrom(w, project, r.sheets, r.frame)
         IN  next(getPipelineCreateStep(w, project, sheetRows, c))

getPipelineCreate(w, project, steps, sheetRows) ==
    getPipelineCreateFrom(w, project, sheetRows, CompileStart(steps))

-----------------------------------------------------------------------------
(* Plan differ *)

\* the map from spec id to spec that diffSpecs builds: a later spec of the same id
\* overwrites an earlier one
specsByID(steps) ==
    LET flat == Flatten([ i \in DOMAIN steps |-> steps[i].Specs ])
        ids == { flat[i].Id : i \in DOMAIN flat }
        last(id) == CHOOSE i \in DOMAIN flat :
                        /\ flat[i].Id = id
                        /\ \A j \in DOMAIN flat : flat[j].Id = id => j <= i
    IN  [ id \in ids |-> flat[last(id)] ]

isSpecSheetUpdated(specA, specB) ==
    IF specA.Config # "ChangeDatabaseConfig" THEN FALSE
    ELSE IF specB.Config # "ChangeDatabaseConfig" THEN FALSE
    ELSE specA.Value.Sheet # specB.Value.Sheet

\* the inner loop of diffSpecs over the specs of one step: the first spec that
\* is a hit is appended, and the loop breaks
firstOfStep(specs, hits) ==
    LET at == { i \in DOMAIN specs : specs[i] \in hits }
    IN  IF at = {} THEN <<>>
        ELSE << specs[CHOOSE i \in at : \A j \in at : i <= j] >>

\* the outer loop of diffSpecs over the steps
overSteps(steps, hits) ==
    Flatten([ i \in DOMAIN steps |-> firstOfStep(steps[i].Specs, hits) ])

diffSpecs(oldSteps, newSteps) ==
    LET oldSpecs == specsByID(oldSteps)
        newSpecs == specsByID(newSteps)
        specsOf(steps) == UNION { Range(steps[i].Specs) : i \in DOMAIN steps }
        isRemoved == { spec \in specsOf(oldSteps) : spec.Id \notin DOMAIN newSpecs }
        isAdded == { spec \in specsOf(newSteps) : spec.Id \notin DOMAIN oldSpecs }
        isUpdated == { spec \in specsOf(newSteps) :
                        /\ spec.Id \in DOMAIN oldSpecs
                        /\ isSpecSheetUpdated(oldSpecs[spec.Id], spec) }
    IN  [ removed |-> overSteps(oldSteps, isRemoved),
          added   |-> overSteps(newSteps, isAdded),
          updated |-> overSteps(newSteps, isUpdated) ]

-----------------------------------------------------------------------------
(* Submitted plans: the bounded sets the requests are drawn from *)

\* the spec ids of the model, handed out by position in the plan
SpecIDs == <<"A", "B", "C", "D", "E">>

Target(instance, database) == <<"instances", instance, "databases", database>>

SheetName(project, sheet) == <<"projects", project, "sheets", sheet>>

\* the sequences of n step sizes that hold k specs together
Splits(k, n) == { cs \in [1..n -> 0..k] : SumSeq(cs) = k }

\* the specs of flat, cut into steps of the sizes cs
CutIntoSteps(flat, cs) ==
    [ i \in DOMAIN cs |->
        [Specs |-> SubSeq(flat, 1 + SumSeq(SubSeq(cs, 1, i - 1)), SumSeq(SubSeq(cs, 1, i)))] ]

\* the j-th spec of the plan gets the id SpecIDs[j + shift]
WithIDs(flat, shift) == [ j \in DOMAIN flat |-> [flat[j] EXCEPT !.Id = SpecIDs[j + shift]] ]

\* every plan of at most maxSteps steps and maxSpecs specs drawn from pool
PlansOver(pool, maxSpecs, maxSteps, shift) ==
    UNION { UNION { { CutIntoSteps(WithIDs(flat, shift), cs) :
                         flat \in [1..k -> pool], cs \in Splits(k, n) }
                    : k \in 0..maxSpecs }
            : n \in 0..maxSteps }

-----------------------------------------------------------------------------
(* Initial store and call count, shared by every specification *)

\* the tables of the store before the first call
EmptyTables ==
    /\ sheets = UserSheets
    /\ pipelines = <<>>
    /\ stages = <<>>
    /\ tasks = <<>>
    /\ taskDAGs = <<>>
    /\ issues = <<>>
    /\ plans = <<>>
    /\ drafts = <<>>

StoreInit ==
    /\ EmptyTables
    /\ calls = 0

Pending == [done |-> FALSE]

-----------------------------------------------------------------------------
(* SpecExpand: getTaskCreatesFromSpec on one spec *)

ExpandChangeSpecs ==
    { PlanSpec("A", "ChangeDatabaseConfig",
               [ChangeDatabaseConfig(target, sheet, type) EXCEPT !.RollbackEnabled = rollback]) :
        target \in { Target("i1", "db1"), Target("i2", "db2"), Target("i1", "nodb"), <<"instances", "i1">> },
        sheet \in { SheetName("p1", "1"), SheetName("p1", "9"), SheetName("p1", "x"), <<"sheets", "1">> },
        type \in { "BASELINE", "MIGRATE", "MIGRATE_SDL", "MIGRATE_GHOST", "DATA", "BRANCH", "TYPE_UNSPECIFIED" },
        rollback \in BOOLEAN }

ExpandCreateConfigs ==
    { [CreateDatabaseConfig(<<"instances", instance>>, database) EXCEPT !.Table = table] :
        instance \in {"i1", "i2", "i3", "i4", "i9"}, database \in {"Shop", ""},
        table \in {"", "orders"} }

ExpandCreateSpecs == { PlanSpec("A", "CreateDatabaseConfig", c) : c \in ExpandCreateConfigs }

ExpandSources ==
    { Nil,
      Some([kind |-> "Backup", Backup |-> Target("i1", "db1") \o <<"backups", "bk1">>, PointInTime |-> 0]),
      Some([kind |-> "Backup", Backup |-> Target("i1", "db1") \o <<"backups", "bk9">>, PointInTime |-> 0]),
      Some([kind |-> "PointInTime", Backup |-> <<>>, PointInTime |-> 7]) }

ExpandRestoreSpecs ==
    { PlanSpec("A", "RestoreDatabaseConfig", RestoreDatabaseConfig(target, source, create)) :
        target \in { Target("i1", "db1"), Target("i1", "db3"), Target("i1", "nodb") },
        source \in ExpandSources,
        create \in { Nil, Some(CreateDatabaseConfig(<<"instances", "i1">>, "Shop")),
                          Some(CreateDatabaseConfig(<<"instances", "i2">>, "Shop")),
                          Some([CreateDatabaseConfig(<<"instances", "i2">>, "Shop") EXCEPT !.Owner = "app"]) } }

ExpandSpecs ==
    ExpandChangeSpecs \cup ExpandCreateSpecs \cup ExpandRestoreSpecs
      \cup { PlanSpec("A", "nil", <<>>) }

InitExpand ==
    /\ StoreInit
    /\ world \in Worlds
    /\ call \in { [op |-> "getTaskCreatesFromSpec", project |-> TheProject, spec |-> spec, env |-> env] :
                    spec \in ExpandSpecs, env \in {"", "e1"} }
    /\ ret = Pending

Expand ==
    /\ call.op = "getTaskCreatesFromSpec"
    /\ ~ret.done
    /\ \E r \in { getTaskCreatesFromSpec(world, call.project, call.spec, call.env, sheets) } :
           /\ ret' = [done |-> TRUE, tasks |-> r.tasks, dags |-> r.dags, err |-> r.err,
                      env |-> r.env, spec |-> r.arg]
           /\ sheets' = r.sheets
    /\ UNCHANGED <<pipelines, stages, tasks, taskDAGs, issues, plans, drafts, calls, world, call>>

SpecExpand == InitExpand /\ [][Expand]_vars

-----------------------------------------------------------------------------
(* SpecGate: getTaskCreatesFromSpec under every set of licensed features *)

\* a project in tenant mode
TenantProject == [TheProject EXCEPT !.TenantMode = "TENANT"]

\* earliest_allowed_time of a spec: not set, the zero Timestamp (seconds 0), the
\* Timestamp of Go's zero time, and a time of day 7
GateTimes == { Nil, Some(0), Some(ZeroTimeSeconds), Some(7) }

GateSpecs ==
    { [spec EXCEPT !.EarliestAllowedTime = time] :
        spec \in { PlanSpec("A", "CreateDatabaseConfig", CreateDatabaseConfig(<<"instances", "i1">>, "Shop")),
                   PlanSpec("A", "CreateDatabaseConfig", CreateDatabaseConfig(<<"instances", "i3">>, "Shop")),
                   PlanSpec("A", "ChangeDatabaseConfig",
                            ChangeDatabaseConfig(Target("i1", "db1"), SheetName("p1", "1"), "MIGRATE")),
                   PlanSpec("A", "RestoreDatabaseConfig",
                            RestoreDatabaseConfig(Target("i1", "db1"), Some([kind |-> "PointInTime", Backup |-> <<>>, PointInTime |-> 7]), Nil)) },
        time \in GateTimes }

InitGate ==
    /\ StoreInit
    /\ world \in { [TheWorld EXCEPT !.Features = features] :
                      features \in SUBSET {"TaskScheduleTime", "MultiTenancy"} }
    /\ call \in { [op |-> "getTaskCreatesFromSpec", project |-> project, spec |-> spec, env |-> ""] :
                    project \in {TheProject, TenantProject}, spec \in GateSpecs }
    /\ ret = Pending

SpecGate == InitGate /\ [][Expand]_vars

-----------------------------------------------------------------------------
(* SpecCompile: getPipelineCreate on the steps of one plan, store call by store call,
   beside another request that creates sheets *)

\* most sheets the other request creates in one behaviour
MaxOtherSheets == 1

CompilePool ==
    { PlanSpec("", "ChangeDatabaseConfig", ChangeDatabaseConfig(Target("i1", "db1"), SheetName("p1", "1"), "MIGRATE")),
      PlanSpec("", "ChangeDatabaseConfig", ChangeDatabaseConfig(Target("i1", "db1"), SheetName("p1", "1"), "MIGRATE_GHOST")),
      PlanSpec("", "ChangeDatabaseConfig", ChangeDatabaseConfig(Target("i2", "db2"), SheetName("p1", "2"), "MIGRATE")),
      PlanSpec("", "ChangeDatabaseConfig", ChangeDatabaseConfig(Target("i1", "nodb"), SheetName("p1", "1"), "MIGRATE")),
      PlanSpec("", "ChangeDatabaseConfig", ChangeDatabaseConfig(Target("i1", "db1"), SheetName("p1", "3"), "MIGRATE")),
      PlanSpec("", "ChangeDatabaseConfig", ChangeDatabaseConfig(Target("i1", "db1"), SheetName("p1", "4"), "MIGRATE")),
      PlanSpec("", "CreateDatabaseConfig", CreateDatabaseConfig(<<"instances", "i1">>, "Shop")) }

\* the two calls, the second on the request as the first left it
CompileCalls(first) ==
    LET second == CompileStart(IF Returned(first) THEN RequestOf(first) ELSE <<>>)
    IN  [done |-> Returned(first), first |-> first,
         again |-> Returned(first) /\ Returned(second), second |-> second]

InitCompile ==
    /\ StoreInit
    /\ world = TheWorld
    /\ call \in { [op |-> "getPipelineCreate", steps |-> steps] :
                    steps \in PlansOver(CompilePool, MaxSpecs, MaxSteps, 0) }
    /\ ret = CompileCalls(CompileStart(call.steps))

\* the first call as it returned
Compiled == PipelineCreateOf(ret.first)

\* the second call as it returned
CompiledAgain == PipelineCreateOf(ret.second)

\* the first call of getPipelineCreate moves on by one store call
Compile ==
    /\ call.op = "getPipelineCreate"
    /\ ~ret.done
    /\ \E r \in { getPipelineCreateStep(world, TheProject, sheets, ret.first) } :
           /\ ret' = CompileCalls(r.frame)
           /\ sheets' = r.sheets
    /\ UNCHANGED <<pipelines, stages, tasks, taskDAGs, issues, plans, drafts, calls, world, call>>

\* a second call of getPipelineCreate on the same request, as the first call left it,
\* moves on by one store call
CompileAgain ==
    /\ call.op = "getPipelineCreate"
    /\ ret.done
    /\ ~ret.again
    /\ \E r \in { getPipelineCreateStep(world, TheProject, sheets, ret.second) } :
           /\ ret' = [ret EXCEPT !.second = r.frame, !.again = Returned(r.frame)]
           /\ sheets' = r.sheets
    /\ UNCHANGED <<pipelines, stages, tasks, taskDAGs, issues, plans, drafts, calls, world, call>>

\* another request creates a sheet (store.CreateSheetV2) between two store calls of
\* the call
OtherCreateSheet ==
    /\ calls < MaxOtherSheets
    /\ sheets' = CreateSheetV2(sheets, <<"other sql">>)
    /\ calls' = calls + 1
    /\ UNCHANGED <<pipelines, stages, tasks, taskDAGs, issues, plans, drafts, world, call, ret>>

NextCompile == Compile \/ CompileAgain \/ OtherCreateSheet

SpecCompile == InitCompile /\ [][NextCompile]_vars

-----------------------------------------------------------------------------
(* SpecDiff: diffSpecs on the steps of a stored and of a submitted plan *)

DiffOldPool ==
    { PlanSpec("", "ChangeDatabaseConfig", ChangeDatabaseConfig(Target("i1", "db1"), SheetName("p1", "1"), "MIGRATE")),
      PlanSpec("", "CreateDatabaseConfig", CreateDatabaseConfig(<<"instances", "i1">>, "Shop")) }

DiffNewPool ==
    DiffOldPool \cup
    { PlanSpec("", "ChangeDatabaseConfig", ChangeDatabaseConfig(Target("i1", "db1"), SheetName("p1", "2"), "MIGRATE")) }

InitDiff ==
    /\ StoreInit
    /\ world = TheWorld
    /\ call \in { [op |-> "diffSpecs", oldSteps |-> old, newSteps |-> new] :
                    old \in PlansOver(DiffOldPool, MaxSpecs, MaxSteps, 0),
                    new \in PlansOver(DiffNewPool, MaxSpecs, MaxSteps, 0)
                            \cup PlansOver(DiffNewPool, 1, 1, 1) }
    /\ ret = Pending

Diff ==
    /\ call.op = "diffSpecs"
    /\ ~ret.done
    /\ \E r \in { diffSpecs(call.oldSteps, call.newSteps) } :
           ret' = [done |-> TRUE, removed |-> r.removed, added |-> r.added, updated |-> r.updated]
    /\ UNCHANGED <<storeVars, calls, world, call>>

SpecDiff == InitDiff /\ [][Diff]_vars

-----------------------------------------------------------------------------
(* Plan steps as the store keeps them (storepb.PlanConfig), and back *)

ConfigKinds == {"CreateDatabaseConfig", "ChangeDatabaseConfig", "RestoreDatabaseConfig"}

convertPlanConfigCreateDatabaseConfig(c) ==
    [Target |-> c.Target, Database |-> c.Database, Table |-> c.Table,
     CharacterSet |-> c.CharacterSet, Collation |-> c.Collation, Cluster |-> c.Cluster,
     Owner |-> c.Owner, Backup |-> c.Backup, Labels |-> c.Labels]

\* the type is cast by its number, and the rollback detail is not copied
convertPlanSpecChangeDatabaseConfig(c) ==
    [Target |-> c.Target, Sheet |-> c.Sheet, Type |-> c.Type, SchemaVersion |-> c.SchemaVersion,
     RollbackEnabled |-> c.RollbackEnabled, RollbackDetail |-> Nil]

\* the Source oneof, copied by kind
convertSource(source) ==
    IF IsNil(source) THEN Nil
    ELSE IF source[1].kind = "Backup"
         THEN Some([kind |-> "Backup", Backup |-> source[1].Backup, PointInTime |-> 0])
    ELSE IF source[1].kind = "PointInTime"
         THEN Some([kind |-> "PointInTime", Backup |-> <<>>, PointInTime |-> source[1].PointInTime])
    ELSE Nil

convertPlanSpecRestoreDatabaseConfig(c) ==
    [Target |-> c.Target,
     Source |-> convertSource(c.Source),
     CreateDatabaseConfig |->
        IF IsNil(c.CreateDatabaseConfig) THEN Nil
        ELSE Some(convertPlanConfigCreateDatabaseConfig(c.CreateDatabaseConfig[1]))]

convertPlanSpec(spec) ==
    [Id |-> spec.Id,
     EarliestAllowedTime |-> spec.EarliestAllowedTime,
     Config |-> IF spec.Config \in ConfigKinds THEN spec.Config ELSE "nil",
     Value |-> CASE spec.Config = "CreateDatabaseConfig" -> convertPlanConfigCreateDatabaseConfig(spec.Value)
                 [] spec.Config = "ChangeDatabaseConfig" -> convertPlanSpecChangeDatabaseConfig(spec.Value)
                 [] spec.Config = "RestoreDatabaseConfig" -> convertPlanSpecRestoreDatabaseConfig(spec.Value)
                 [] OTHER -> <<>>]

convertPlanSteps(steps) ==
    [ i \in DOMAIN steps |->
        [Specs |-> [ j \in DOMAIN steps[i].Specs |-> convertPlanSpec(steps[i].Specs[j]) ]] ]

convertToPlanSpecCreateDatabaseConfig(c) ==
    [Target |-> c.Target, Database |-> c.Database, Table |-> c.Table,
     CharacterSet |-> c.CharacterSet, Collation |-> c.Collation, Cluster |-> c.Cluster,
     Owner |-> c.Owner, Backup |-> c.Backup, Labels |-> c.Labels]

convertToPlanSpecChangeDatabaseConfigType(t) ==
    IF t \in {"TYPE_UNSPECIFIED", "BASELINE", "MIGRATE", "MIGRATE_SDL", "MIGRATE_GHOST", "BRANCH", "DATA"}
    THEN t ELSE "TYPE_UNSPECIFIED"

\* both fields of the detail are read from RollbackFromReview
convertToPlanSpecChangeDatabaseConfigRollbackDetail(d) ==
    IF IsNil(d) THEN Nil
    ELSE Some([RollbackFromReview |-> d[1].RollbackFromReview,
               RollbackFromTask |-> d[1].RollbackFromReview])

convertToPlanSpecChangeDatabaseConfig(c) ==
    [Target |-> c.Target, Sheet |-> c.Sheet,
     Type |-> convertToPlanSpecChangeDatabaseConfigType(c.Type),
     SchemaVersion |-> c.SchemaVersion, RollbackEnabled |-> c.RollbackEnabled,
     RollbackDetail |-> convertToPlanSpecChangeDatabaseConfigRollbackDetail(c.RollbackDetail)]

convertToPlanSpecRestoreDatabaseConfig(c) ==
    [Target |-> c.Target,
     Source |-> convertSource(c.Source),
     CreateDatabaseConfig |->
        IF IsNil(c.CreateDatabaseConfig) THEN Nil
        ELSE Some(convertToPlanSpecCreateDatabaseConfig(c.CreateDatabaseConfig[1]))]

convertToPlanSpec(spec) ==
    [Id |-> spec.Id,
     EarliestAllowedTime |-> spec.EarliestAllowedTime,
     Config |-> IF spec.Config \in ConfigKinds THEN spec.Config ELSE "nil",
     Value |-> CASE spec.Config = "CreateDatabaseConfig" -> convertToPlanSpecCreateDatabaseConfig(spec.Value)
                 [] spec.Config = "ChangeDatabaseConfig" -> convertToPlanSpecChangeDatabaseConfig(spec.Value)
                 [] spec.Config = "RestoreDatabaseConfig" -> convertToPlanSpecRestoreDatabaseConfig(spec.Value)
                 [] OTHER -> <<>>]

convertToPlanSteps(steps) ==
    [ i \in DOMAIN steps |->
        [Specs |-> [ j \in DOMAIN steps[i].Specs |-> convertToPlanSpec(steps[i].Specs[j]) ]] ]

\* "projects/{project}/plans/{plan}"
PlanName(project, uid) == <<"projects", project, "plans", uid>>

getPlanID(name) ==
    IF Len(name) = 4 /\ name[1] = "projects" /\ name[3] = "plans" /\ Atoi(name[4]).err = NoError
    THEN [id |-> Atoi(name[4]).n, err |-> NoError]
    ELSE [id |-> 0, err |-> "invalid plan name"]

\* the numeral of a UID (fmt.Sprintf("%d", uid))
Itoa(n) == CHOOSE s \in DOMAIN NumeralOf : NumeralOf[s] = n

convertToPlan(plan) ==
    [Name |-> PlanName(plan.ProjectID, Itoa(plan.UID)), Uid |-> Itoa(plan.UID),
     Steps |-> convertToPlanSteps(plan.Steps)]

NoPlan == [Name |-> <<>>, Uid |-> "", Steps |-> <<>>]

NilPlan == [UID |-> 0, ProjectID |-> "", PipelineUID |-> Nil, Steps |-> <<>>]

\* store.GetPlan
GetPlan(planRows, uid) == IF uid \in DOMAIN planRows THEN planRows[uid] ELSE NilPlan

-----------------------------------------------------------------------------
(* Rollout rehydration *)

\* a store lookup by UID: the row of `rows` with that UID, or `nil`
FindByUID(rows, uid, nil) ==
    LET found == { r \in rows : r.UID = uid }
    IN  IF found = {} THEN nil ELSE CHOOSE r \in found : TRUE

NoName == <<>>

\* the sheets of the store all belong to the project of the calls
getResourceNameForSheet(sheetRows, sheetUID) ==
    IF ~GetSheetV2(sheetRows, sheetUID) THEN [name |-> NoName, err |-> "sheet not found"]
    ELSE [name |-> <<"projects", TheProject.ResourceID, "sheets", sheetUID>>, err |-> NoError]

\* a rendering that does not read the skipped flag
convertToTaskStatusOfStatus(status, skipped) ==
    IF status \in {"PENDING", "PENDING_APPROVAL", "RUNNING", "DONE", "FAILED", "CANCELED"}
    THEN status ELSE "STATUS_UNSPECIFIED"

convertToTaskStatus(status, skipped) ==
    CASE status = "PENDING" -> "PENDING"
      [] status = "PENDING_APPROVAL" -> "PENDING_APPROVAL"
      [] status = "RUNNING" -> IF skipped THEN "SKIPPED" ELSE "RUNNING"
      [] status = "DONE" -> "DONE"
      [] status = "FAILED" -> "FAILED"
      [] status = "CANCELED" -> "CANCELED"
      [] OTHER -> "STATUS_UNSPECIFIED"

convertToTaskType(taskType) ==
    IF taskType \in {"GENERAL", "DATABASE_CREATE", "DATABASE_SCHEMA_BASELINE",
                     "DATABASE_SCHEMA_UPDATE", "DATABASE_SCHEMA_UPDATE_SDL",
                     "DATABASE_SCHEMA_UPDATE_GHOST_SYNC", "DATABASE_SCHEMA_UPDATE_GHOST_CUTOVER",
                     "DATABASE_DATA_UPDATE", "DATABASE_BACKUP",
                     "DATABASE_RESTORE_RESTORE", "DATABASE_RESTORE_CUTOVER"}
    THEN taskType ELSE "TYPE_UNSPECIFIED"

NoStage == [Name |-> NoName, Uid |-> 0, Environment |-> NoName, Tasks |-> <<>>]

\* Uid is the decimal of the id, kept here as the id
convertToStage(project, stage) ==
    LET environment == FindByUID(Range(Environments), stage.EnvironmentID, NilEnvironment)
    IN  IF environment.UID = 0 THEN [stage |-> NoStage, err |-> "environment not found"]
        ELSE [stage |-> [Name |-> <<"projects", project.ResourceID, "rollouts", stage.PipelineID,
                                    "stages", stage.ID>>,
                         Uid |-> stage.ID,
                         Environment |-> <<"environments", environment.ResourceID>>,
                         Tasks |-> <<>>],
              err |-> NoError]

NoTask ==
    [Name |-> NoName, Uid |-> 0, SpecId |-> "", Type |-> "TYPE_UNSPECIFIED",
     Status |-> "STATUS_UNSPECIFIED", BlockedByTasks |-> <<>>, Target |-> NoName]

\* convertToTask and the converter of each task type it dispatches to, from one lookup
\* in a table of the store that calls write (sheets, issues, tasks) to the next.  pc is
\* the lookup the converter stands at: "convertToTask" at its start, which runs up to
\* and with the first such lookup, then "getResourceNameForSheet" for the rollback
\* sheet of a data update, "GetIssueV2" and "GetTaskV2ByID" for the issue and the task
\* it rolls back.  The result holds the pc after the step, "converted" or "failed" when
\* the converter returns, and whether the issue was found.  The checks of each
\* converter are in its order, with the fields all converters fill; the payload of the
\* task returned is left out.  A lookup the code does not check for nil panics when
\* the row is missing.
convertToTask(S, project, task, pc, rollbackFromIssue) ==
    LET payload == task.Payload
        out(next, t, err) ==
            [pc |-> next, task |-> t, err |-> err, rollbackFromIssue |-> rollbackFromIssue]
        failed(err) == out("failed", NoTask, err)
        converted(target) ==
            out("converted",
                [Name |-> <<"projects", project.ResourceID, "rollouts", task.PipelineID,
                            "stages", task.StageID, "tasks", task.ID>>,
                 Uid |-> task.ID,
                 SpecId |-> payload.SpecID,
                 Type |-> convertToTaskType(task.Type),
                 Status |-> convertToTaskStatus(task.Status, payload.Skipped),
                 BlockedByTasks |-> <<>>,
                 Target |-> target],
                NoError)
        database == FindByUID(Databases, task.DatabaseID, NilDatabase)
        instance == FindByUID(Range(Instances), task.InstanceID, NilInstance)
        sheet == getResourceNameForSheet(S.sheets, payload.SheetID)
        onDatabase ==
            IF database.UID = 0 THEN failed("database not found")
            ELSE converted(Target(database.InstanceID, database.DatabaseName))
        backupOf(uid) ==
            LET backup == FindByUID(Backups, uid, NilBackup)
            IN  IF backup.UID = 0 THEN "backup not found"
                ELSE IF FindByUID(Databases, backup.DatabaseUID, NilDatabase).UID = 0
                     THEN "database not found"
                     ELSE NoError
        \* convertToTaskFromDataUpdate from its database lookup on
        fromDataUpdate ==
            IF database.UID = 0 THEN failed("database not found")
            ELSE IF payload.RollbackFromIssueID # 0 /\ payload.RollbackFromTaskID # 0
                 THEN out("GetIssueV2", NoTask, NoError)
            ELSE onDatabase
    IN  CASE pc = "getResourceNameForSheet" ->
                IF getResourceNameForSheet(S.sheets, payload.RollbackSheetID).err # NoError
                THEN failed("failed to get rollback sheet resource name")
                ELSE fromDataUpdate
          [] pc = "GetIssueV2" ->
                [out("GetTaskV2ByID", NoTask, NoError) EXCEPT
                    !.rollbackFromIssue = payload.RollbackFromIssueID \in DOMAIN S.issues]
          [] pc = "GetTaskV2ByID" ->
                IF ~rollbackFromIssue \/ payload.RollbackFromTaskID \notin DOMAIN S.tasks
                THEN failed("panic: nil pointer dereference")
                ELSE onDatabase
          [] pc = "convertToTask" /\ task.Type = "DATABASE_CREATE" ->
                IF sheet.err # NoError THEN failed(sheet.err)
                ELSE IF instance.UID = 0 THEN failed("panic: nil pointer dereference")
                ELSE converted(<<"instances", instance.ResourceID>>)
          [] pc = "convertToTask"
               /\ task.Type \in {"DATABASE_SCHEMA_BASELINE", "DATABASE_SCHEMA_UPDATE_GHOST_CUTOVER",
                                 "DATABASE_RESTORE_CUTOVER"} ->
                IF task.DatabaseID = 0 THEN failed("database id is nil") ELSE onDatabase
          [] pc = "convertToTask"
               /\ task.Type \in {"DATABASE_SCHEMA_UPDATE", "DATABASE_SCHEMA_UPDATE_SDL",
                                 "DATABASE_SCHEMA_UPDATE_GHOST_SYNC"} ->
                IF task.DatabaseID = 0 THEN failed("database id is nil")
                ELSE IF sheet.err # NoError THEN failed(sheet.err)
                ELSE onDatabase
          [] pc = "convertToTask" /\ task.Type = "DATABASE_DATA_UPDATE" ->
                IF task.DatabaseID = 0 THEN failed("database id is nil")
                ELSE IF sheet.err # NoError THEN failed(sheet.err)
                ELSE IF payload.RollbackSheetID # 0 THEN out("getResourceNameForSheet", NoTask, NoError)
                ELSE fromDataUpdate
          [] pc = "convertToTask" /\ task.Type = "DATABASE_BACKUP" ->
                IF task.DatabaseID = 0 THEN failed("database id is nil")
                ELSE IF backupOf(GetSeconds(payload.BackupID)) # NoError
                     THEN failed(backupOf(GetSeconds(payload.BackupID)))
                ELSE onDatabase
          [] pc = "convertToTask" /\ task.Type = "DATABASE_RESTORE_RESTORE" ->
                IF task.DatabaseID = 0 THEN failed("database id is nil")
                ELSE IF database.UID = 0 THEN failed("database not found")
                ELSE IF IsNil(payload.BackupID) = IsNil(payload.PointInTimeTs)
                     THEN failed("payload.BackupID and payload.PointInTimeTs cannot be both nil or both not nil")
                ELSE IF IsNil(payload.TargetInstanceID) # IsNil(payload.TargetDatabaseName)
                     THEN failed("payload.TargetInstanceID and payload.DatabaseName must be both nil or both not nil")
                ELSE IF /\ ~IsNil(payload.TargetInstanceID)
                        /\ FindByUID(Range(Instances), payload.TargetInstanceID[1], NilInstance).UID = 0
                     THEN failed("target instance not found")
                ELSE IF ~IsNil(payload.BackupID) /\ backupOf(payload.BackupID[1]) # NoError
                     THEN failed(backupOf(payload.BackupID[1]))
                ELSE onDatabase
          [] OTHER -> failed("task type is not supported")

\* the names of the tasks a task is blocked by, with the unknown ids passed over
blockedByKnownNames(taskByID, blockedBy) ==
    [names |-> [ k \in DOMAIN SelectSeq(blockedBy, LAMBDA b : b \in DOMAIN taskByID) |->
                    taskByID[SelectSeq(blockedBy, LAMBDA b : b \in DOMAIN taskByID)[k]].Name ],
     err |-> NoError]

\* the inner loop of the third loop of convertToRollout: the names of the tasks a
\* task is blocked by, in the order of BlockedBy
blockedByNames(taskByID, blockedBy) ==
    IF \E k \in DOMAIN blockedBy : blockedBy[k] \notin DOMAIN taskByID
    THEN [names |-> <<>>, err |-> "cannot find blocking task"]
    ELSE [names |-> [ k \in DOMAIN blockedBy |-> taskByID[blockedBy[k]].Name ], err |-> NoError]

NoRollout == [Name |-> NoName, Uid |-> 0, Stages |-> <<>>]

NilPipeline == [ID |-> 0, Name |-> ""]

\* the place in rows of the last row with this ID: the row a map by ID ends up with
LastWithID(rows, id) ==
    CHOOSE k \in DOMAIN rows : rows[k].ID = id /\ \A j \in DOMAIN rows : rows[j].ID = id => j <= k

\* the third loop of convertToRollout, and its return.  r.stages and r.tasks hold what
\* each stage row and each task row converted to.  A task is put under the stage that
\* the map by stage ID holds for its StageID; the names of the tasks that block a row
\* are put on the task that the map by task ID holds for the ID of the row.
assembleRollout(project, r) ==
    LET taskByID == [ id \in { r.taskRows[k].ID : k \in DOMAIN r.taskRows } |->
                        r.tasks[LastWithID(r.taskRows, id)] ]
        names(k) == blockedByNames(taskByID, r.taskRows[k].BlockedBy)
        badBlocks == { k \in DOMAIN r.taskRows : names(k).err # NoError }
        blockedBy(p) ==
            Flatten([ k \in DOMAIN r.taskRows |->
                        IF LastWithID(r.taskRows, r.taskRows[k].ID) = p THEN names(k).names ELSE <<>> ])
        placed == [ p \in DOMAIN r.tasks |-> [r.tasks[p] EXCEPT !.BlockedByTasks = blockedBy(p)] ]
        tasksOf(i) ==
            LET own == SelectSeq([ p \in DOMAIN r.taskRows |-> p ],
                                 LAMBDA p : LastWithID(r.stageRows, r.taskRows[p].StageID) = i)
            IN  [ k \in DOMAIN own |-> placed[own[k]] ]
    IN  IF badBlocks # {}
        THEN [r EXCEPT !.pc = "done", !.err = "cannot find blocking task"]
        ELSE [r EXCEPT !.pc = "done",
                       !.rollout = [Name |-> <<"projects", project.ResourceID, "rollouts", r.pipeline.ID>>,
                                    Uid |-> r.pipeline.ID,
                                    Stages |-> [ i \in DOMAIN r.stages |->
                                                   [r.stages[i] EXCEPT !.Tasks = tasksOf(i)] ]]]

\* the local variables of convertToRollout: i and k are the stage row and the task
\* row the loops are at, pc the lookup it stands at, stages and tasks what the rows
\* converted to so far
ConvertFrame(pipeline, stageRows, taskRows) ==
    [pipeline |-> pipeline, stageRows |-> stageRows, taskRows |-> taskRows,
     i |-> 1, k |-> 1, pc |-> "convertToStage", rollbackFromIssue |-> FALSE,
     stages |-> <<>>, tasks |-> <<>>, rollout |-> NoRollout, err |-> NoError]

\* convertToRollout after a row was converted: at the next stage row, at the next task
\* row, or in the third loop
nextRow(project, r) ==
    IF r.i <= Len(r.stageRows) THEN [r EXCEPT !.pc = "convertToStage"]
    ELSE IF r.k <= Len(r.taskRows) THEN [r EXCEPT !.pc = "convertToTask"]
    ELSE assembleRollout(project, r)

\* convertToRollout up to its first lookup: reading pipeline.ID of a nil pipeline
\* panics
ConvertStart(project, pipeline, stageRows, taskRows) ==
    IF pipeline.ID = 0
    THEN [ConvertFrame(pipeline, stageRows, taskRows) EXCEPT
            !.pc = "done", !.err = "panic: nil pointer dereference"]
    ELSE nextRow(project, ConvertFrame(pipeline, stageRows, taskRows))

\* a converter panicked: the panic leaves convertToRollout as it is
IsPanic(err) == err \in {"panic: nil pointer dereference", "panic: index out of range"}

\* convertToRollout from one store lookup to the next: the environment of a stage row,
\* or a lookup of the converter of a task row.  Each loop returns at its first
\* failure: a stage that does not convert; then, task by task, a task that does not
\* convert or whose stage is not in the list; then a blocking task not in the list.
convertToRollout(S, project, r) ==
    LET staged(c) ==
            IF c.err # NoError THEN [r EXCEPT !.pc = "done", !.err = "failed to convert stage"]
            ELSE nextRow(project, [r EXCEPT !.stages = Append(r.stages, c.stage), !.i = r.i + 1])
        tasked(t) ==
            IF t.pc = "failed"
            THEN [r EXCEPT !.pc = "done",
                           !.err = IF IsPanic(t.err) THEN t.err ELSE "failed to convert task"]
            ELSE IF t.pc # "converted"
            THEN [r EXCEPT !.pc = t.pc, !.rollbackFromIssue = t.rollbackFromIssue]
            ELSE IF r.taskRows[r.k].StageID \notin { r.stageRows[i].ID : i \in DOMAIN r.stageRows }
            THEN [r EXCEPT !.pc = "done", !.err = "cannot find stage of task"]
            ELSE nextRow(project, [r EXCEPT !.tasks = Append(r.tasks, t.task), !.k = r.k + 1,
                                            !.rollbackFromIssue = FALSE])
    IN  IF r.pc = "convertToStage" THEN staged(convertToStage(project, r.stageRows[r.i]))
        ELSE tasked(convertToTask(S, project, r.taskRows[r.k], r.pc, r.rollbackFromIssue))

-----------------------------------------------------------------------------
(* Rollout materializer *)

\* the store as one record, for the operators that thread it
Store ==
    [sheets |-> sheets, pipelines |-> pipelines, stages |-> stages, tasks |-> tasks,
     taskDAGs |-> taskDAGs, issues |-> issues, plans |-> plans, drafts |-> drafts]

\* the store before the first call
EmptyStore ==
    [sheets |-> UserSheets, pipelines |-> <<>>, stages |-> <<>>, tasks |-> <<>>,
     taskDAGs |-> <<>>, issues |-> <<>>, plans |-> <<>>, drafts |-> <<>>]

\* the task row CreateTasksV2 inserts for a draft
TaskRow(id, pipelineID, stageID, taskCreate) ==
    [ID |-> id, PipelineID |-> pipelineID, StageID |-> stageID,
     InstanceID |-> taskCreate.InstanceID, DatabaseID |-> taskCreate.DatabaseID,
     Status |-> taskCreate.Status, Type |-> taskCreate.Type,
     Payload |-> taskCreate.Payload, EarliestAllowedTs |-> taskCreate.EarliestAllowedTs]

\* a variant of TaskDAGMessage that turns the edge around
TaskDAGMessageReversed(taskIDs, indexDAG) ==
    [FromTaskID |-> taskIDs[indexDAG.ToIndex + 1], ToTaskID |-> taskIDs[indexDAG.FromIndex + 1]]

\* the edge row of an edge of the draft, between the tasks CreateTasksV2 returned
TaskDAGMessage(taskIDs, indexDAG) ==
    [FromTaskID |-> taskIDs[indexDAG.FromIndex + 1], ToTaskID |-> taskIDs[indexDAG.ToIndex + 1]]

\* the local variables of createPipeline when it is called on a draft: pc is the store
\* call it stands at, s the stage and e the edge the loops are at, stageIDs the stage
\* rows and taskIDs the task rows of stage s the store returned
MaterializeStart(pipelineCreate) ==
    [draft |-> pipelineCreate, pc |-> "CreatePipelineV2", pipelineID |-> 0, stageIDs |-> <<>>,
     s |-> 1, e |-> 1, taskIDs |-> <<>>, err |-> NoError]

\* createPipeline after the tasks of stage s or one of its edges were written: at the
\* next edge of the stage, where tasks[index] panics on an index past the tasks of the
\* stage, at the tasks of the next stage, or at its return
nextEdge(m) ==
    LET dagList == m.draft.StageList[m.s].TaskIndexDAGList
    IN  IF m.e <= Len(dagList)
        THEN IF dagList[m.e].FromIndex >= Len(m.taskIDs) \/ dagList[m.e].ToIndex >= Len(m.taskIDs)
             THEN [m EXCEPT !.pc = "failed", !.err = "panic: index out of range"]
             ELSE [m EXCEPT !.pc = "CreateTaskDAGV2"]
        ELSE IF m.s < Len(m.draft.StageList)
             THEN [m EXCEPT !.pc = "CreateTasksV2", !.s = m.s + 1, !.e = 1, !.taskIDs = <<>>]
             ELSE [m EXCEPT !.pc = "created"]

\* createPipeline from one store call to the next; fail is whether the store call
\* returns an error.  The draft is kept as history beside the pipeline row.
createPipeline(S, m, fail) ==
    LET stageList == m.draft.StageList
        failed(err) == [store |-> S, frame |-> [m EXCEPT !.pc = "failed", !.err = err]]
        pipelineID == Len(S.pipelines) + 1
        stageRows == [ i \in DOMAIN stageList |->
                        [ID |-> Len(S.stages) + i, PipelineID |-> m.pipelineID,
                         EnvironmentID |-> stageList[i].EnvironmentID] ]
        taskRows == [ k \in DOMAIN stageList[m.s].TaskList |->
                        TaskRow(Len(S.tasks) + k, m.pipelineID, m.stageIDs[m.s],
                                stageList[m.s].TaskList[k]) ]
    IN  CASE m.pc = "CreatePipelineV2" ->
                IF fail THEN failed("failed to create pipeline for issue")
                ELSE [store |-> [S EXCEPT !.pipelines = Append(@, [ID |-> pipelineID, Name |-> "Rollout Pipeline"]),
                                          !.drafts = Append(@, [StageList |-> stageList,
                                                                Origins |-> m.draft.Origins])],
                      frame |-> [m EXCEPT !.pc = "CreateStageV2", !.pipelineID = pipelineID]]
          [] m.pc = "CreateStageV2" ->
                IF fail THEN failed("failed to create stages for issue")
                ELSE [store |-> [S EXCEPT !.stages = @ \o stageRows],
                      frame |-> [m EXCEPT !.pc = IF stageList = <<>> THEN "created" ELSE "CreateTasksV2",
                                          !.stageIDs = [ i \in DOMAIN stageRows |-> stageRows[i].ID ]]]
          [] m.pc = "CreateTasksV2" ->
                IF fail THEN failed("failed to create tasks for issue")
                ELSE [store |-> [S EXCEPT !.tasks = @ \o taskRows],
                      frame |-> nextEdge([m EXCEPT !.taskIDs = [ k \in DOMAIN taskRows |-> taskRows[k].ID ]])]
          [] m.pc = "CreateTaskDAGV2" ->
                IF fail THEN failed("failed to create task DAG for issue")
                ELSE [store |-> [S EXCEPT !.taskDAGs =
                                    Append(@, TaskDAGMessage(m.taskIDs,
                                                             stageList[m.s].TaskIndexDAGList[m.e]))],
                      frame |-> nextEdge([m EXCEPT !.e = m.e + 1])]

-----------------------------------------------------------------------------
(* The handlers, store call by store call *)

\* a client that has no call in flight and has made none
Idle == [op |-> "none", pc |-> "done", n |-> 0, overlap |-> FALSE]

\* the handler returns: code is the status code, err the error
Return(f, code, err) == [f EXCEPT !.pc = "done", !.code = code, !.err = err]

\* what a step of a handler leaves: the store and the local variables of the call;
\* n counts the store calls the call has made
Stepped(S, f) == [store |-> S, frame |-> [f EXCEPT !.n = f.n + 1]]

-----------------------------------------------------------------------------
(* CreatePlan *)

\* CreatePlan after a store call of getPipelineCreate: still in getPipelineCreate,
\* returning its error, or with the draft at the lookup of the default assignee
afterCompile(f) ==
    IF compilePC(f.c) = "failed"
    THEN IF IsPanic(f.c.err) THEN Return(f, "Unknown", f.c.err)
                             ELSE Return(f, "InvalidArgument", f.c.err)
    ELSE IF compilePC(f.c) # "compiled" THEN f
    ELSE IF Len(f.c.StageList) = 0
         THEN Return(f, "InvalidArgument", "no database matched for deployment")
    ELSE [f EXCEPT !.pc = "GetDefaultAssignee", !.m = MaterializeStart(PipelineCreateOf(f.c))]

\* the local variables of CreatePlan when it is called on the steps of a request: c
\* those of getPipelineCreate, m those of createPipeline, made the sheets the call
\* created, injected whether a store call of it returned an error
CreatePlanStart(steps) ==
    afterCompile([op |-> "CreatePlan", pc |-> "getPipelineCreate", n |-> 0, overlap |-> FALSE,
                  c |-> CompileStart(steps), m |-> MaterializeStart([StageList |-> <<>>, Origins |-> <<>>]),
                  stagesSeen |-> 0, made |-> 0, injected |-> FALSE,
                  code |-> "", err |-> NoError, plan |-> NoPlan])

\* the store calls of CreatePlan that are taken to return an error in some behaviour
CanFail(f) ==
    f.op = "CreatePlan" /\ f.pc \notin {"getPipelineCreate", "done"}

\* CreatePlan from one store call to the next.  Between getPipelineCreate and
\* createPipeline the default assignee is looked up; after createPipeline come six
\* more store calls: the issue row, the issue read back, the task checks, two
\* activities, the plan row.
createPlan(w, project, S, f, fail) ==
    LET failed(code, err) == Stepped(S, [Return(f, code, err) EXCEPT !.injected = TRUE])
        compiled(r) ==
            Stepped([S EXCEPT !.sheets = r.sheets],
                    afterCompile([f EXCEPT !.c = r.frame,
                                           !.made = f.made + Len(r.sheets) - Len(S.sheets)]))
        created(r) ==
            IF r.frame.pc = "failed"
            THEN Stepped(r.store, [Return([f EXCEPT !.m = r.frame], "Unknown", r.frame.err)
                                      EXCEPT !.injected = fail])
            ELSE Stepped(r.store, [f EXCEPT !.m = r.frame,
                                            !.pc = IF r.frame.pc = "created" THEN "CreateIssueV2"
                                                                             ELSE "createPipeline"])
        plan == [UID |-> Len(S.plans) + 1, ProjectID |-> project.ResourceID,
                 PipelineUID |-> Some(f.m.pipelineID), Steps |-> convertPlanSteps(f.c.out)]
    IN  CASE f.pc = "getPipelineCreate" ->
                compiled(getPipelineCreateStep(w, project, S.sheets, f.c))
          [] f.pc = "GetDefaultAssignee" ->
                IF fail THEN failed("Internal", "failed to find a default assignee")
                ELSE Stepped(S, [f EXCEPT !.pc = "createPipeline"])
          [] f.pc = "createPipeline" ->
                created(createPipeline(S, f.m, fail))
          [] f.pc = "CreateIssueV2" ->
                IF fail THEN failed("Internal", "failed to create issue")
                ELSE Stepped([S EXCEPT !.issues = Append(@, [UID |-> Len(S.issues) + 1,
                                                             PipelineUID |-> f.m.pipelineID])],
                             [f EXCEPT !.pc = "GetIssueByID"])
          [] f.pc = "GetIssueByID" ->
                IF fail THEN failed("Unknown", "failed to get issue")
                ELSE Stepped(S, [f EXCEPT !.pc = "SchedulePipelineTaskCheck",
                                          !.stagesSeen = Cardinality({ i \in DOMAIN S.stages :
                                                            S.stages[i].PipelineID = f.m.pipelineID })])
          [] f.pc = "SchedulePipelineTaskCheck" ->
                IF fail THEN failed("Unknown", "failed to schedule task check")
                ELSE Stepped(S, [f EXCEPT !.pc = "CreateActivityIssueCreate"])
          [] f.pc = "CreateActivityIssueCreate" ->
                IF fail THEN failed("Unknown", "failed to create ActivityIssueCreate activity")
                ELSE Stepped(S, [f EXCEPT !.pc = IF f.stagesSeen > 0
                                                 THEN "CreateActivityPipelineStageStatusUpdate"
                                                 ELSE "CreatePlan"])
          [] f.pc = "CreateActivityPipelineStageStatusUpdate" ->
                IF fail THEN failed("Unknown", "failed to create ActivityPipelineStageStatusUpdate activity")
                ELSE Stepped(S, [f EXCEPT !.pc = "CreatePlan"])
          [] f.pc = "CreatePlan" ->
                IF fail THEN failed("Internal", "failed to create plan")
                ELSE Stepped([S EXCEPT !.plans = Append(@, plan)],
                             [Return(f, "OK", NoError) EXCEPT !.plan = convertToPlan(plan)])

-----------------------------------------------------------------------------
(* UpdatePlan *)

\* a variant of rejectDiff that lets removed specs pass
rejectDiffAllowsRemoval(removed, added, updated) ==
    IF Len(added) > 0 THEN "cannot add specs to plan"
    ELSE IF Len(updated) = 0 THEN "no specs updated"
    ELSE NoError

\* the policy of UpdatePlan on the three lists of diffSpecs
rejectDiff(removed, added, updated) ==
    IF Len(removed) > 0 THEN "cannot remove specs from plan"
    ELSE IF Len(added) > 0 THEN "cannot add specs to plan"
    ELSE IF Len(updated) = 0 THEN "no specs updated"
    ELSE NoError

\* the map from spec id to updated spec: a later spec of the same id overwrites
updatedByID(updated) ==
    [ id \in { updated[i].Id : i \in DOMAIN updated } |->
        updated[CHOOSE i \in DOMAIN updated :
                    /\ updated[i].Id = id
                    /\ \A j \in DOMAIN updated : updated[j].Id = id => j <= i] ]

\* the ids the tasks of taskRows that have an edge into the task id
BlockedBy(dagRows, id) ==
    LET into == SelectSeq(dagRows, LAMBDA d : d.ToTaskID = id)
    IN  [ k \in DOMAIN into |-> into[k].FromTaskID ]

\* store.ListTasks of a pipeline: its task rows in id order, each with the ids of the
\* tasks that block it
ListTasks(S, pipelineID) ==
    LET own == SelectSeq(S.tasks, LAMBDA t : t.PipelineID = pipelineID)
    IN  [ k \in DOMAIN own |-> own[k] @@ [BlockedBy |-> BlockedBy(S.taskDAGs, own[k].ID)] ]

\* store.UpdateTaskV2 with a SheetID patch
UpdateTaskV2(taskRows, id, sheetUID) == [taskRows EXCEPT ![id].Payload.SheetID = sheetUID]

\* the task types whose sheet UpdatePlan rewrites
SheetTaskTypes ==
    {"DATABASE_SCHEMA_UPDATE", "DATABASE_SCHEMA_UPDATE_SDL",
     "DATABASE_SCHEMA_UPDATE_GHOST_SYNC", "DATABASE_DATA_UPDATE"}

\* the task is one the loop of UpdatePlan does not pass over: of a type that carries
\* a sheet, and of an updated spec that is a ChangeDatabaseConfig
HasUpdatedSpec(task, byID) ==
    /\ task.Type \in SheetTaskTypes
    /\ task.Payload.SpecID \in DOMAIN byID
    /\ byID[task.Payload.SpecID].Config = "ChangeDatabaseConfig"

\* the updated spec the loop takes for the task
UpdatedSpecOf(task, byID) ==
    IF task.Payload.SpecID \in DOMAIN byID THEN byID[task.Payload.SpecID]
    ELSE byID[CHOOSE id \in DOMAIN byID : TRUE]

\* the loop of UpdatePlan over the tasks ListTasks returned, up to its next store
\* call: the tasks it passes over are dropped from u.list, and the sheet name of the
\* first task it does not pass over is taken apart.  The sheet id is the first value
\* getProjectResourceIDSheetID returns.
RECURSIVE nextTask(_)
nextTask(u) ==
    IF u.list = <<>> THEN [u EXCEPT !.pc = "UpdatePlan"]
    ELSE IF ~HasUpdatedSpec(Head(u.list), updatedByID(u.updated))
         THEN nextTask([u EXCEPT !.list = Tail(u.list)])
    ELSE LET spec == UpdatedSpecOf(Head(u.list), updatedByID(u.updated))
             parsed == getProjectResourceIDSheetID(spec.Value.Sheet)
             sheetIDInt == Atoi(parsed.project)
         IN  IF parsed.err # NoError THEN Return(u, "Internal", "failed to get sheet id")
             ELSE IF sheetIDInt.err # NoError
                  THEN Return(u, "Internal", "failed to convert sheet id to int")
             ELSE [u EXCEPT !.pc = "GetSheetV2", !.sheetIDInt = sheetIDInt.n]

StepsMask == Some(<<"steps">>)

\* the local variables of UpdatePlan when it is called with the update mask (nil, or
\* Some of its paths), the name and the steps of the plan of the request: the checks
\* before its first store call are made
UpdatePlanStart(mask, name, steps) ==
    LET u == [op |-> "UpdatePlan", pc |-> "GetPlan", n |-> 0, mask |-> mask, name |-> name,
              steps |-> steps, oldPlan |-> NilPlan, updated |-> <<>>, list |-> <<>>,
              sheetIDInt |-> 0, writes |-> 0, overlap |-> FALSE,
              code |-> "", err |-> NoError, plan |-> NoPlan]
    IN  IF IsNil(mask) THEN Return(u, "InvalidArgument", "update_mask must be set")
        ELSE IF \E i \in DOMAIN mask[1] : mask[1][i] # "steps"
             THEN Return(u, "InvalidArgument", "invalid update_mask path")
        ELSE IF getPlanID(name).err # NoError THEN Return(u, "Internal", getPlanID(name).err)
        ELSE u

\* a variant of updatePlan whose plan write is refused when the plan row is no more
\* the one the call read
updatePlanChecked(S, u) ==
    LET oldPlan == GetPlan(S.plans, getPlanID(u.name).id)
        diff == diffSpecs(convertToPlanSteps(oldPlan.Steps), u.steps)
        rejected == rejectDiff(diff.removed, diff.added, diff.updated)
        updatedPlan == GetPlan(S.plans, u.oldPlan.UID)
    IN  CASE u.pc = "GetPlan" ->
                IF oldPlan.UID = 0 THEN Stepped(S, Return(u, "NotFound", "plan not found"))
                ELSE IF rejected # NoError THEN Stepped(S, Return(u, "InvalidArgument", rejected))
                ELSE Stepped(S, [u EXCEPT !.pc = IF IsNil(oldPlan.PipelineUID) THEN "UpdatePlan"
                                                                                ELSE "ListTasks",
                                          !.oldPlan = oldPlan, !.updated = diff.updated])
          [] u.pc = "ListTasks" ->
                Stepped(S, nextTask([u EXCEPT !.list = ListTasks(S, u.oldPlan.PipelineUID[1])]))
          [] u.pc = "GetSheetV2" ->
                IF ~GetSheetV2(S.sheets, u.sheetIDInt)
                THEN Stepped(S, Return(u, "NotFound", "sheet not found"))
                ELSE Stepped(S, [u EXCEPT !.pc = "UpdateTaskV2"])
          [] u.pc = "UpdateTaskV2" ->
                Stepped([S EXCEPT !.tasks = UpdateTaskV2(S.tasks, Head(u.list).ID, u.sheetIDInt)],
                        nextTask([u EXCEPT !.list = Tail(u.list), !.writes = u.writes + 1]))
          [] u.pc = "UpdatePlan" ->
                IF S.plans[u.oldPlan.UID] # u.oldPlan
                THEN Stepped(S, Return(u, "Internal", "failed to update plan"))
                ELSE Stepped([S EXCEPT !.plans[u.oldPlan.UID].Steps = convertPlanSteps(u.steps)],
                             [u EXCEPT !.pc = "GetUpdatedPlan"])
          [] u.pc = "GetUpdatedPlan" ->
                IF updatedPlan.UID = 0
                THEN Stepped(S, Return(u, "NotFound", "updated plan not found"))
                ELSE Stepped(S, [Return(u, "OK", NoError) EXCEPT !.plan = convertToPlan(updatedPlan)])

\* UpdatePlan from one store call to the next
updatePlan(S, u) ==
    LET oldPlan == GetPlan(S.plans, getPlanID(u.name).id)
        diff == diffSpecs(convertToPlanSteps(oldPlan.Steps), u.steps)
        rejected == rejectDiff(diff.removed, diff.added, diff.updated)
        updatedPlan == GetPlan(S.plans, u.oldPlan.UID)
    IN  CASE u.pc = "GetPlan" ->
                IF oldPlan.UID = 0 THEN Stepped(S, Return(u, "NotFound", "plan not found"))
                ELSE IF rejected # NoError THEN Stepped(S, Return(u, "InvalidArgument", rejected))
                ELSE Stepped(S, [u EXCEPT !.pc = IF IsNil(oldPlan.PipelineUID) THEN "UpdatePlan"
                                                                                ELSE "ListTasks",
                                          !.oldPlan = oldPlan, !.updated = diff.updated])
          [] u.pc = "ListTasks" ->
                Stepped(S, nextTask([u EXCEPT !.list = ListTasks(S, u.oldPlan.PipelineUID[1])]))
          [] u.pc = "GetSheetV2" ->
                IF ~GetSheetV2(S.sheets, u.sheetIDInt)
                THEN Stepped(S, Return(u, "NotFound", "sheet not found"))
                ELSE Stepped(S, [u EXCEPT !.pc = "UpdateTaskV2"])
          [] u.pc = "UpdateTaskV2" ->
                Stepped([S EXCEPT !.tasks = UpdateTaskV2(S.tasks, Head(u.list).ID, u.sheetIDInt)],
                        nextTask([u EXCEPT !.list = Tail(u.list), !.writes = u.writes + 1]))
          [] u.pc = "UpdatePlan" ->
                Stepped([S EXCEPT !.plans[u.oldPlan.UID].Steps = convertPlanSteps(u.steps)],
                        [u EXCEPT !.pc = "GetUpdatedPlan"])
          [] u.pc = "GetUpdatedPlan" ->
                IF updatedPlan.UID = 0
                THEN Stepped(S, Return(u, "NotFound", "updated plan not found"))
                ELSE Stepped(S, [Return(u, "OK", NoError) EXCEPT !.plan = convertToPlan(updatedPlan)])

-----------------------------------------------------------------------------
(* GetRollout *)

\* "projects/{project}/rollouts/{rollout}"
RolloutName(project, uid) == <<"projects", project, "rollouts", uid>>

getProjectIDRolloutID(name) ==
    IF Len(name) = 4 /\ name[1] = "projects" /\ name[3] = "rollouts" /\ Atoi(name[4]).err = NoError
    THEN [project |-> name[2], rolloutID |-> Atoi(name[4]).n, err |-> NoError]
    ELSE [project |-> "", rolloutID |-> 0, err |-> "invalid rollout name"]

\* store.GetPipelineV2ByID
GetPipelineV2ByID(pipelineRows, id) ==
    IF id \in DOMAIN pipelineRows THEN pipelineRows[id] ELSE NilPipeline

\* store.ListStageV2 of a pipeline: its stage rows in id order
ListStageV2(stageRows, pipelineID) == SelectSeq(stageRows, LAMBDA st : st.PipelineID = pipelineID)

\* the local variables of GetRollout when it is called with the name of a rollout:
\* the checks before its first store call on a table that calls write are made
GetRolloutStart(name) ==
    LET g == [op |-> "GetRollout", pc |-> "GetPipelineV2ByID", n |-> 0, overlap |-> FALSE,
              name |-> name,
              rolloutID |-> getProjectIDRolloutID(name).rolloutID,
              pipeline |-> NilPipeline, stageRows |-> <<>>,
              r |-> ConvertFrame(NilPipeline, <<>>, <<>>),
              code |-> "", err |-> NoError, rollout |-> NoRollout]
    IN  IF getProjectIDRolloutID(name).err # NoError
        THEN Return(g, "InvalidArgument", getProjectIDRolloutID(name).err)
        ELSE IF getProjectIDRolloutID(name).project # TheProject.ResourceID
        THEN Return(g, "NotFound", "project not found")
        ELSE g

\* GetRollout after a step of convertToRollout: still in it, or returning what it
\* returned
afterConvert(g) ==
    IF g.r.pc # "done" THEN [g EXCEPT !.pc = "convertToRollout"]
    ELSE IF IsPanic(g.r.err) THEN Return(g, "Unknown", g.r.err)
    ELSE IF g.r.err # NoError THEN Return(g, "Internal", g.r.err)
    ELSE [Return(g, "OK", NoError) EXCEPT !.rollout = g.r.rollout]

\* GetRollout from one store call to the next: the pipeline row, its stage rows, its
\* task rows, then the lookups of convertToRollout
getRollout(S, project, g) ==
    CASE g.pc = "GetPipelineV2ByID" ->
            Stepped(S, [g EXCEPT !.pc = "ListStageV2",
                                 !.pipeline = GetPipelineV2ByID(S.pipelines, g.rolloutID)])
      [] g.pc = "ListStageV2" ->
            Stepped(S, [g EXCEPT !.pc = "ListTasks", !.stageRows = ListStageV2(S.stages, g.rolloutID)])
      [] g.pc = "ListTasks" ->
            Stepped(S, afterConvert([g EXCEPT !.r = ConvertStart(project, g.pipeline, g.stageRows,
                                                                  ListTasks(S, g.rolloutID))]))
      [] g.pc = "convertToRollout" ->
            Stepped(S, afterConvert([g EXCEPT !.r = convertToRollout(S, project, g.r)]))

-----------------------------------------------------------------------------
(* GetPlan *)

\* the local variables of GetPlan when it is called with the name of a plan: the
\* check before its store call is made
GetPlanStart(name) ==
    LET g == [op |-> "GetPlan", pc |-> "GetPlan", n |-> 0, overlap |-> FALSE, name |-> name,
              code |-> "", err |-> NoError, plan |-> NoPlan]
    IN  IF getPlanID(name).err # NoError
        THEN Return(g, "InvalidArgument", getPlanID(name).err)
        ELSE g

\* GetPlan at its one store call: the plan row is read and converted, no row is written
getPlan(S, g) ==
    LET plan == GetPlan(S.plans, getPlanID(g.name).id)
    IN  IF plan.UID = 0 THEN Stepped(S, Return(g, "NotFound", "plan not found"))
        ELSE Stepped(S, [Return(g, "OK", NoError) EXCEPT !.plan = convertToPlan(plan)])

\* a handler with no other call between its store calls, and no store call of it
\* returning an error: the store and the call when it has returned
RECURSIVE RunAlone(_, _)
RunAlone(S, f) ==
    IF f.pc = "done" THEN [store |-> S, frame |-> f]
    ELSE LET next(r) == RunAlone(r.store, r.frame)
         IN  next(CASE f.op = "CreatePlan" -> createPlan(TheWorld, TheProject, S, f, FALSE)
                    [] f.op = "UpdatePlan" -> updatePlan(S, f)
                    [] f.op = "GetRollout" -> getRollout(S, TheProject, f)
                    [] f.op = "GetPlan" -> getPlan(S, f))

-----------------------------------------------------------------------------
(* Spec: the service.  Two clients call CreatePlan, UpdatePlan and GetRollout on one
   store.  A call takes one step for each store call it makes, and the steps of the
   calls of the two clients interleave. *)

\* the two clients
Procs == {1, 2}

\* most specs in one plan submitted to the service, over all its steps
MaxRequestSpecs == 2

\* most CreatePlan, UpdatePlan and GetRollout calls of one client in one behaviour
MaxCreatePlans == 1

MaxUpdatePlans == 1

MaxGetRollouts == 1

MigrateSpec(database, sheet, type) ==
    PlanSpec("", "ChangeDatabaseConfig",
             ChangeDatabaseConfig(Target(database[1], database[2]), sheet, type))

CreatePool ==
    { MigrateSpec(<<"i1", "db1">>, SheetName("p1", "1"), "MIGRATE"),
      MigrateSpec(<<"i1", "db1">>, SheetName("p1", "1"), "MIGRATE_SDL"),
      MigrateSpec(<<"i1", "db1">>, SheetName("p1", "1"), "MIGRATE_GHOST"),
      MigrateSpec(<<"i2", "db2">>, SheetName("p1", "1"), "MIGRATE"),
      PlanSpec("", "CreateDatabaseConfig", CreateDatabaseConfig(<<"instances", "i1">>, "Shop")) }

CreateRequests == PlansOver(CreatePool, MaxRequestSpecs, MaxSteps, 0)

\* the sheet names an update puts in place of the stored ones: sheet 1 of project
\* p1, sheet 1 of a project named 2, sheet 2 of a project named 9
UpdateSheets == { SheetName("p1", "1"), SheetName("2", "1"), SheetName("9", "2") }

FlatSpecs(steps) == Flatten([ i \in DOMAIN steps |-> steps[i].Specs ])

StepSizes(steps) == [ i \in DOMAIN steps |-> Len(steps[i].Specs) ]

\* the steps a client holds after reading the plan: as stored, with the last spec
\* dropped, and with one more spec at the end
ShapesOf(steps) ==
    LET all == FlatSpecs(steps)
        last == Len(steps)
        sizes(d) == [ i \in 1..last |-> IF i = last THEN Len(steps[i].Specs) + d
                                                    ELSE Len(steps[i].Specs) ]
        more == [MigrateSpec(<<"i1", "db1">>, SheetName("p1", "1"), "MIGRATE")
                    EXCEPT !.Id = SpecIDs[Len(all) + 1]]
    IN  {steps}
        \cup (IF steps = <<>> \/ steps[last].Specs = <<>> THEN {}
              ELSE { CutIntoSteps(SubSeq(all, 1, Len(all) - 1), sizes(-1)) })
        \cup (IF steps = <<>> THEN {}
              ELSE { CutIntoSteps(Append(all, more), sizes(1)) })

\* steps with the sheet of its j-th ChangeDatabaseConfig spec set to names[j], for
\* the positions names has
WithSheets(steps, names) ==
    LET flat == FlatSpecs(steps)
        edited == [ j \in DOMAIN flat |->
                    IF j \in DOMAIN names /\ flat[j].Config = "ChangeDatabaseConfig"
                    THEN [flat[j] EXCEPT !.Value.Sheet = names[j]] ELSE flat[j] ]
    IN  CutIntoSteps(edited, StepSizes(steps))

\* the steps UpdatePlan is offered for a plan whose steps read back as stored: every
\* shape of them, under every choice of sheets for the specs the plan has
EditsOf(stored) ==
    UNION { { WithSheets(shape, names) :
                names \in [1..Len(FlatSpecs(stored)) -> UpdateSheets] } : shape \in ShapesOf(stored) }

\* the UpdatePlan requests the first client makes in a store: the steps vary where the
\* handler gets to read them, that is for a plan that exists under a mask of "steps"
UpdateRequests(planRows) ==
    { [op |-> "UpdatePlan", mask |-> StepsMask, name |-> PlanName("p1", Itoa(req[1])), steps |-> req[2]] :
        req \in UNION { {uid} \X EditsOf(convertToPlanSteps(planRows[uid].Steps)) :
                          uid \in DOMAIN planRows } }
    \cup { [op |-> "UpdatePlan", mask |-> mask, name |-> PlanName("p1", "1"), steps |-> <<>>] :
            mask \in { Nil, Some(<<"title">>), Some(<<>>) } }
    \cup { [op |-> "UpdatePlan", mask |-> StepsMask, name |-> name, steps |-> <<>>] :
            name \in { PlanName("p1", Itoa(Len(planRows) + 1)), <<"plans", "1">> } }

\* the UpdatePlan requests the second client makes: every spec of a plan that exists
\* moved to sheet 2, under the name of a project named 2 or of a project named 1
SecondUpdateRequests(planRows) ==
    { [op |-> "UpdatePlan", mask |-> StepsMask, name |-> PlanName("p1", Itoa(uid)),
       steps |-> WithSheets(convertToPlanSteps(planRows[uid].Steps),
                            [ j \in 1..Len(FlatSpecs(planRows[uid].Steps)) |-> sheet ])] :
        uid \in DOMAIN planRows, sheet \in { SheetName("2", "1"), SheetName("1", "2") } }

\* the requests of each client
CreateRequestsOf(self) == IF self = 1 THEN CreateRequests ELSE {}

UpdateRequestsOf(self, planRows) ==
    IF self = 1 THEN UpdateRequests(planRows) ELSE SecondUpdateRequests(planRows)

RolloutRequestsOf(self) ==
    IF self = 1 THEN {} ELSE { RolloutName("p1", "1"), <<"rollouts", "1">> }

\* the calls each client has made, by handler
NoCalls == [self \in Procs |-> [CreatePlan |-> 0, UpdatePlan |-> 0, GetRollout |-> 0, GetPlan |-> 0]]

SetStore(S) ==
    /\ sheets' = S.sheets
    /\ pipelines' = S.pipelines
    /\ stages' = S.stages
    /\ tasks' = S.tasks
    /\ taskDAGs' = S.taskDAGs
    /\ issues' = S.issues
    /\ plans' = S.plans
    /\ drafts' = S.drafts

Init ==
    /\ EmptyTables
    /\ calls = NoCalls
    /\ world = TheWorld
    /\ call = [self \in Procs |-> [op |-> "none"]]
    /\ ret = [self \in Procs |-> Idle]

\* a request of the client self arrives, and the handler runs up to its first store
\* call; quiet is whether no call of the other client is in flight.  The second client
\* makes one call in a behaviour.
Arrive(self, request, frame) ==
    /\ ret[self].pc = "done"
    /\ self = 1 \/ ret[self].op = "none"
    /\ call' = [call EXCEPT ![self] =
                    request @@ [quiet |-> \A other \in Procs \ {self} : ret[other].pc = "done"]]
    /\ ret' = [ret EXCEPT ![self] = frame]
    /\ calls' = [calls EXCEPT ![self][request.op] = @ + 1]
    /\ UNCHANGED <<storeVars, world>>

\* a call of the other client is between its first store call and its return
OtherInFlight(self) ==
    \E other \in Procs \ {self} : ret[other].pc # "done" /\ ret[other].n > 0

\* the call of the client self makes its next store call and runs up to the one after.
\* overlap records, on both calls, that a store call of one fell between the first
\* store call and the return of the other.
TakeStep(self, r) ==
    /\ SetStore(r.store)
    /\ \E crossed \in { OtherInFlight(self) } :
          ret' = [ p \in Procs |->
                    IF p = self THEN [r.frame EXCEPT !.overlap = ret[self].overlap \/ crossed]
                    ELSE IF crossed THEN [ret[p] EXCEPT !.overlap = TRUE]
                    ELSE ret[p] ]
    /\ UNCHANGED <<calls, world, call>>

CreatePlan(self) ==
    /\ calls[self].CreatePlan < MaxCreatePlans
    /\ \E steps \in CreateRequestsOf(self) :
          Arrive(self, [op |-> "CreatePlan", steps |-> steps], CreatePlanStart(steps))

CreatePlanStep(self) ==
    /\ ret[self].op = "CreatePlan"
    /\ ret[self].pc # "done"
    /\ \E fail \in (IF CanFail(ret[self]) THEN BOOLEAN ELSE {FALSE}) :
          \E r \in { createPlan(world, TheProject, Store, ret[self], fail) } : TakeStep(self, r)

UpdatePlan(self) ==
    /\ calls[self].UpdatePlan < MaxUpdatePlans
    /\ \E request \in UpdateRequestsOf(self, plans) :
          Arrive(self, request, UpdatePlanStart(request.mask, request.name, request.steps))

UpdatePlanStep(self) ==
    /\ ret[self].op = "UpdatePlan"
    /\ ret[self].pc # "done"
    /\ \E r \in { updatePlan(Store, ret[self]) } : TakeStep(self, r)

GetRollout(self) ==
    /\ calls[self].GetRollout < MaxGetRollouts
    /\ \E name \in RolloutRequestsOf(self) :
          Arrive(self, [op |-> "GetRollout", name |-> name], GetRolloutStart(name))

GetRolloutStep(self) ==
    /\ ret[self].op = "GetRollout"
    /\ ret[self].pc # "done"
    /\ \E r \in { getRollout(Store, TheProject, ret[self]) } : TakeStep(self, r)

\* most GetPlan calls of one client in one behaviour
MaxGetPlans == 1

\* the names GetPlan is called with: the first plan, a plan that is not there, and a
\* name that is no plan name
GetPlanRequests == { PlanName("p1", "1"), PlanName("p1", "2"), <<"plans", "1">> }

\* a GetPlan request of the client self arrives
GetPlanCall(self) ==
    /\ calls[self].GetPlan < MaxGetPlans
    /\ \E name \in GetPlanRequests :
          Arrive(self, [op |-> "GetPlan", name |-> name], GetPlanStart(name))

GetPlanStep(self) ==
    /\ ret[self].op = "GetPlan"
    /\ ret[self].pc # "done"
    /\ \E r \in { getPlan(Store, ret[self]) } : TakeStep(self, r)

Next ==
    \E self \in Procs :
        \/ CreatePlan(self)
        \/ CreatePlanStep(self)
        \/ UpdatePlan(self)
        \/ UpdatePlanStep(self)
        \/ GetRollout(self)
        \/ GetRolloutStep(self)

Spec == Init /\ [][Next]_vars

-----------------------------------------------------------------------------
(* SpecRace: two UpdatePlan calls on one plan, store call by store call *)

\* the plans the two calls meet in the store: one spec, and two specs in one step
RacePlans ==
    { CutIntoSteps(WithIDs(flat, 0), <<Len(flat)>>) :
        flat \in { << MigrateSpec(<<"i1", "db1">>, SheetName("p1", "1"), "MIGRATE") >>,
                   << MigrateSpec(<<"i1", "db1">>, SheetName("p1", "1"), "MIGRATE"),
                      MigrateSpec(<<"i1", "db1">>, SheetName("p1", "1"), "MIGRATE") >> } }

\* the sheet names the two calls put in place of the stored one
RaceSheets ==
    { SheetName("p1", "1"), SheetName("2", "1"), SheetName("1", "2"), SheetName("9", "2") }

\* the steps a call submits for a plan whose steps read back as stored
RaceEdits(stored) ==
    { WithSheets(stored, names) : names \in [1..Len(FlatSpecs(stored)) -> RaceSheets] }

\* the store a CreatePlan of the steps leaves when it runs alone
StoreWithPlan(steps) == RunAlone(EmptyStore, CreatePlanStart(steps)).store

\* both calls have arrived, on the store a CreatePlan left; met is that store
InitRace ==
    /\ world = TheWorld
    /\ calls = [self \in Procs |-> [NoCalls[self] EXCEPT !.UpdatePlan = 1]]
    /\ \E steps \in RacePlans :
         \E S \in { StoreWithPlan(steps) } :
            /\ sheets = S.sheets
            /\ pipelines = S.pipelines
            /\ stages = S.stages
            /\ tasks = S.tasks
            /\ taskDAGs = S.taskDAGs
            /\ issues = S.issues
            /\ plans = S.plans
            /\ drafts = S.drafts
            /\ \E edits \in [Procs -> RaceEdits(convertToPlanSteps(S.plans[1].Steps))] :
                  /\ call = [self \in Procs |->
                                [op |-> "UpdatePlan", mask |-> StepsMask, name |-> PlanName("p1", "1"),
                                 steps |-> edits[self], quiet |-> FALSE, met |-> S]]
                  /\ ret = [self \in Procs |->
                                UpdatePlanStart(StepsMask, PlanName("p1", "1"), edits[self])]

NextRace == \E self \in Procs : UpdatePlanStep(self)

SpecRace == InitRace /\ [][NextRace]_vars

-----------------------------------------------------------------------------
(* SpecFrame: two UpdatePlan calls, each on one of two plans of the store, store call
   by store call *)

\* the rollback detail a DATA spec of a request may carry
FrameDetail ==
    [RollbackFromReview |-> <<"projects", "p1", "reviews", "1">>,
     RollbackFromTask |-> <<"projects", "p1", "rollouts", "1", "stages", "1", "tasks", "1">>]

\* the steps of the first plan of the store: a MIGRATE and a BASELINE spec in one
\* step, and a MIGRATE and a DATA spec in two
FramePlans ==
    { CutIntoSteps(WithIDs(<< MigrateSpec(<<"i1", "db1">>, SheetName("p1", "1"), "MIGRATE"),
                              MigrateSpec(<<"i1", "db1">>, SheetName("p1", "1"), "BASELINE") >>, 0), <<2>>),
      CutIntoSteps(WithIDs(<< MigrateSpec(<<"i1", "db1">>, SheetName("p1", "1"), "MIGRATE"),
                              MigrateSpec(<<"i1", "db1">>, SheetName("p1", "1"), "DATA") >>, 0), <<1, 1>>) }

\* the steps of the second plan: one MIGRATE spec, whose id is that of the first spec
\* of the first plan
FrameOtherPlan ==
    CutIntoSteps(WithIDs(<< MigrateSpec(<<"i1", "db1">>, SheetName("p1", "2"), "MIGRATE") >>, 0), <<1>>)

\* the sheet names a call puts in place of the stored ones
FrameSheets == { SheetName("p1", "1"), SheetName("2", "1"), SheetName("1", "2") }

\* steps with the rollback detail of every ChangeDatabaseConfig spec set to detail
WithDetail(steps, detail) ==
    [ i \in DOMAIN steps |->
        [Specs |-> [ j \in DOMAIN steps[i].Specs |->
                      IF steps[i].Specs[j].Config = "ChangeDatabaseConfig"
                      THEN [steps[i].Specs[j] EXCEPT !.Value.RollbackDetail = detail]
                      ELSE steps[i].Specs[j] ]] ]

\* the requests of a client for the plans of a store: a plan, its steps as they read
\* back under every choice of sheets, and for the first client with or without a
\* rollback detail
FrameRequests(self, planRows) ==
    UNION { { [uid |-> uid, steps |-> WithDetail(WithSheets(convertToPlanSteps(planRows[uid].Steps), names), detail)] :
                names \in [1..Len(FlatSpecs(planRows[uid].Steps)) -> FrameSheets],
                detail \in (IF self = 1 THEN {Nil, Some(FrameDetail)} ELSE {Nil}) } :
            uid \in DOMAIN planRows }

\* the store two CreatePlan calls leave when they run alone, one after the other
StoreWithPlans(steps, otherSteps) ==
    RunAlone(StoreWithPlan(steps), CreatePlanStart(otherSteps)).store

\* both calls have arrived, on the store the two CreatePlan calls left
InitFrame ==
    /\ world = TheWorld
    /\ calls = [self \in Procs |-> [NoCalls[self] EXCEPT !.UpdatePlan = 1]]
    /\ \E steps \in FramePlans :
         \E S \in { StoreWithPlans(steps, FrameOtherPlan) } :
            /\ sheets = S.sheets
            /\ pipelines = S.pipelines
            /\ stages = S.stages
            /\ tasks = S.tasks
            /\ taskDAGs = S.taskDAGs
            /\ issues = S.issues
            /\ plans = S.plans
            /\ drafts = S.drafts
            /\ \E first \in FrameRequests(1, S.plans), second \in FrameRequests(2, S.plans) :
                  \E requests \in { <<first, second>> } :
                      /\ call = [self \in Procs |->
                                    [op |-> "UpdatePlan", mask |-> StepsMask,
                                     name |-> PlanName("p1", Itoa(requests[self].uid)),
                                     steps |-> requests[self].steps, quiet |-> FALSE, met |-> S]]
                      /\ ret = [self \in Procs |->
                                    UpdatePlanStart(StepsMask, PlanName("p1", Itoa(requests[self].uid)),
                                                    requests[self].steps)]

SpecFrame == InitFrame /\ [][NextRace]_vars

-----------------------------------------------------------------------------
(* SpecStatus: a plan of each kind of spec is created, and then read, updated and
   its rollout read, store call by store call *)

BackupSource ==
    Some([kind |-> "Backup", Backup |-> Target("i1", "db1") \o <<"backups", "bk1">>, PointInTime |-> 0])

PointInTimeSource == Some([kind |-> "PointInTime", Backup |-> <<>>, PointInTime |-> 7])

RestoreSpec(source, create) ==
    PlanSpec("", "RestoreDatabaseConfig", RestoreDatabaseConfig(Target("i1", "db1"), source, create))

\* a spec of every variant and every branch of the expanders that returns tasks
StatusPool ==
    { MigrateSpec(<<"i1", "db1">>, SheetName("p1", "1"), type) :
        type \in {"BASELINE", "MIGRATE", "MIGRATE_SDL", "MIGRATE_GHOST", "DATA"} }
    \cup { [MigrateSpec(<<"i1", "db1">>, SheetName("p1", "1"), "DATA")
              EXCEPT !.Value.RollbackDetail = Some(FrameDetail)],
           PlanSpec("", "CreateDatabaseConfig", CreateDatabaseConfig(<<"instances", "i1">>, "Shop")),
           RestoreSpec(BackupSource, Nil),
           RestoreSpec(PointInTimeSource, Nil),
           RestoreSpec(PointInTimeSource, Some(CreateDatabaseConfig(<<"instances", "i1">>, "Shop"))) }

\* the plans CreatePlan is called with: one spec of the pool, and two plans of two
\* specs whose first carries a sheet
StatusRequests ==
    PlansOver(StatusPool, 1, 1, 0)
    \cup { CutIntoSteps(WithIDs(<< MigrateSpec(<<"i1", "db1">>, SheetName("p1", "1"), "MIGRATE"),
                                   MigrateSpec(<<"i1", "db1">>, SheetName("p1", "1"), type) >>, 0), <<2>>) :
             type \in {"BASELINE", "DATA"} }

\* the CreatePlan call of the first client has arrived with steps, on the store
\* before the first call
Arrived(steps) ==
    /\ EmptyTables
    /\ world = TheWorld
    /\ calls = [NoCalls EXCEPT ![1].CreatePlan = 1]
    /\ call = [self \in Procs |-> IF self = 1 THEN [op |-> "CreatePlan", steps |-> steps, quiet |-> TRUE]
                                                 ELSE [op |-> "none"]]
    /\ ret = [self \in Procs |-> IF self = 1 THEN CreatePlanStart(steps) ELSE Idle]

InitStatus == \E steps \in StatusRequests : Arrived(steps)

NextStatus ==
    \E self \in Procs :
        \/ CreatePlanStep(self)
        \/ UpdatePlan(self)
        \/ UpdatePlanStep(self)
        \/ GetPlanCall(self)
        \/ GetPlanStep(self)
        \/ GetRollout(self)
        \/ GetRolloutStep(self)

SpecStatus == InitStatus /\ [][NextStatus]_vars

-----------------------------------------------------------------------------
(* SpecOrder: CreatePlan on plans of up to three specs, of one and of two tasks each,
   store call by store call, beside a GetRollout of the other client *)

\* most specs in one plan of SpecOrder
MaxOrderSpecs == 3

OrderPool ==
    { MigrateSpec(<<"i1", "db1">>, SheetName("p1", "1"), "MIGRATE"),
      MigrateSpec(<<"i1", "db1">>, SheetName("p1", "1"), "MIGRATE_GHOST"),
      MigrateSpec(<<"i2", "db2">>, SheetName("p1", "2"), "MIGRATE"),
      RestoreSpec(PointInTimeSource, Nil) }

OrderRequests == PlansOver(OrderPool, MaxOrderSpecs, MaxSteps, 0)

InitOrder == \E steps \in OrderRequests : Arrived(steps)

NextOrder ==
    \E self \in Procs :
        \/ CreatePlanStep(self)
        \/ GetRollout(self)
        \/ GetRolloutStep(self)

SpecOrder == InitOrder /\ [][NextOrder]_vars

-----------------------------------------------------------------------------
(* SpecRehydrate: convertToRollout on the stage rows and task rows of one pipeline,
   lookup by lookup, beside another request that creates sheets *)

MaxRehydrateTasks == 2

RehydratePipeline == [ID |-> 1, Name |-> "Rollout Pipeline"]

StageMessage(id, environmentID) == [ID |-> id, PipelineID |-> RehydratePipeline.ID, EnvironmentID |-> environmentID]

\* the stage lists handed in: none, one, two, and one of an environment that is gone
RehydrateStageLists ==
    { <<>>, << StageMessage(1, 1) >>, << StageMessage(1, 1), StageMessage(2, 2) >>,
      << StageMessage(1, 9) >> }

\* the shapes of a task row: what it runs on and what its payload names.  Sheet 3 is
\* not in the store before another request creates it; instance 9 and issue 1 are
\* not in the store.
RehydrateKind(type, instanceID, databaseID, sheetID, rollbackSheetID, rollbackFromID) ==
    [Type |-> type, InstanceID |-> instanceID, DatabaseID |-> databaseID, SheetID |-> sheetID,
     RollbackSheetID |-> rollbackSheetID, RollbackFromID |-> rollbackFromID]

RehydrateKinds ==
    { RehydrateKind("DATABASE_CREATE", 1, 0, 1, 0, 0),
      RehydrateKind("DATABASE_CREATE", 9, 0, 1, 0, 0),
      RehydrateKind("DATABASE_SCHEMA_UPDATE", 1, 1, 2, 0, 0),
      RehydrateKind("DATABASE_DATA_UPDATE", 1, 1, 1, 3, 0),
      RehydrateKind("DATABASE_DATA_UPDATE", 1, 1, 1, 0, 1),
      RehydrateKind("GENERAL", 1, 1, 1, 0, 0) }

TaskMessage(id, stageID, kind, blockedBy) ==
    [ID |-> id, PipelineID |-> RehydratePipeline.ID, StageID |-> stageID,
     InstanceID |-> kind.InstanceID, DatabaseID |-> kind.DatabaseID,
     Status |-> "PENDING_APPROVAL", Type |-> kind.Type,
     Payload |-> [EmptyPayload EXCEPT !.SpecID = "A", !.SheetID = kind.SheetID,
                                      !.RollbackSheetID = kind.RollbackSheetID,
                                      !.RollbackFromIssueID = kind.RollbackFromID,
                                      !.RollbackFromTaskID = kind.RollbackFromID],
     EarliestAllowedTs |-> 0, BlockedBy |-> blockedBy]

\* the task lists handed in: task k has id k, a stage id that is or is not in the
\* stage list, and is blocked by no task, by a task of the list or by a task that is
\* not in it; then one task in every status
RehydrateTaskLists ==
    UNION { { [ k \in 1..n |-> TaskMessage(k, stageOf[k], kindOf[k], blockOf[k]) ] :
                stageOf \in [1..n -> {1, 2, 7}],
                kindOf \in [1..n -> RehydrateKinds],
                blockOf \in [1..n -> { <<>>, <<1>>, <<2>>, <<2, 9>> }] } :
            n \in 0..MaxRehydrateTasks }
      \cup { << [TaskMessage(1, stageID, kind, <<>>) EXCEPT !.Status = status,
                                                           !.Payload.Skipped = skipped] >> :
                stageID \in {1, 2}, kind \in RehydrateKinds,
                status \in {"PENDING", "PENDING_APPROVAL", "RUNNING", "DONE", "FAILED",
                            "CANCELED", "SKIPPED", ""},
                skipped \in BOOLEAN }

\* the call as it stands: done is whether convertToRollout has returned
Rehydrating(r) == [done |-> r.pc = "done", rollout |-> r.rollout, err |-> r.err, r |-> r]

InitRehydrate ==
    /\ StoreInit
    /\ world = TheWorld
    /\ call \in { [op |-> "convertToRollout", stages |-> stageRows, tasks |-> taskRows] :
                    stageRows \in RehydrateStageLists, taskRows \in RehydrateTaskLists }
    /\ ret = Rehydrating(ConvertStart(TheProject, RehydratePipeline, call.stages, call.tasks))

\* convertToRollout moves on by one lookup
Rehydrate ==
    /\ call.op = "convertToRollout"
    /\ ~ret.done
    /\ \E r \in { convertToRollout(Store, TheProject, ret.r) } : ret' = Rehydrating(r)
    /\ UNCHANGED <<storeVars, calls, world, call>>

SpecRehydrate == InitRehydrate /\ [][Rehydrate \/ OtherCreateSheet]_vars

-----------------------------------------------------------------------------
(* SpecCheck: checkCharacterSetCollationOwner on one engine and one set of values *)

\* the engines of db.Type
Engines ==
    {"CLICKHOUSE", "MYSQL", "POSTGRES", "SNOWFLAKE", "SQLITE", "TIDB", "MONGODB", "REDIS",
     "ORACLE", "SPANNER", "MSSQL", "REDSHIFT", "MARIADB", "OCEANBASE"}

InitCheck ==
    /\ StoreInit
    /\ world = TheWorld
    /\ call \in { [op |-> "checkCharacterSetCollationOwner", dbType |-> dbType,
                   characterSet |-> characterSet, collation |-> collation, owner |-> owner] :
                    dbType \in Engines, characterSet \in {"", "utf8mb4"},
                    collation \in {"", "utf8mb4_general_ci"}, owner \in {"", "bbdev"} }
    /\ ret = Pending

Check ==
    /\ call.op = "checkCharacterSetCollationOwner"
    /\ ~ret.done
    /\ ret' = [done |-> TRUE,
               err |-> checkCharacterSetCollationOwner(call.dbType, call.characterSet,
                                                       call.collation, call.owner)]
    /\ UNCHANGED <<storeVars, calls, world, call>>

SpecCheck == InitCheck /\ [][Check]_vars

-----------------------------------------------------------------------------
(* Properties of the plan compiler (SpecCompile) *)

\* the edges of a compiled stage, as a set of index pairs
StageEdges(stage) ==
    { <<stage.TaskIndexDAGList[e].FromIndex, stage.TaskIndexDAGList[e].ToIndex>> :
        e \in DOMAIN stage.TaskIndexDAGList }

\* the edges a step should compile to: each local edge of the spec at position k,
\* moved by the number of tasks the specs before position k expanded to
TranslatedEdges(specs) ==
    LET exp(k) == getTaskCreatesFromSpec(TheWorld, TheProject, specs[k], "", UserSheets)
        before(k) == SumSeq([ j \in 1..(k - 1) |-> Len(exp(j).tasks) ])
    IN  UNION { { <<exp(k).dags[e].FromIndex + before(k), exp(k).dags[e].ToIndex + before(k)>> :
                    e \in DOMAIN exp(k).dags } : k \in DOMAIN specs }

\* C1: in every stage getPipelineCreate compiles, each local edge (f,t) of the spec
\* at position k appears as (f + c_0+...+c_{k-1}, t + c_0+...+c_{k-1}), and the
\* stage has no other edge; a step of task counts [2,1,2] gives the edges (0,1), (3,4).
C1_EdgeIndexTranslation ==
    (call.op = "getPipelineCreate" /\ ret.done /\ Compiled.err = NoError) =>
        \A i \in DOMAIN Compiled.StageList :
            StageEdges(Compiled.StageList[i]) = TranslatedEdges(call.steps[i].Specs)

-----------------------------------------------------------------------------
(* Properties of the plan differ (SpecDiff) *)

AllSpecs(steps) == UNION { Range(steps[i].Specs) : i \in DOMAIN steps }

SpecWithID(steps, id) == CHOOSE spec \in AllSpecs(steps) : spec.Id = id

IDsOf(steps) == { spec.Id : spec \in AllSpecs(steps) }

\* the old specs whose id is absent from the new steps
RemovedSpecs(oldSteps, newSteps) ==
    { spec \in AllSpecs(oldSteps) : spec.Id \notin IDsOf(newSteps) }

\* the new specs whose id is absent from the old steps
AddedSpecs(oldSteps, newSteps) ==
    { spec \in AllSpecs(newSteps) : spec.Id \notin IDsOf(oldSteps) }

\* the new specs whose id is in both and whose ChangeDatabaseConfig sheet differs
UpdatedSpecs(oldSteps, newSteps) ==
    { spec \in AllSpecs(newSteps) :
        /\ spec.Id \in IDsOf(oldSteps)
        /\ spec.Config = "ChangeDatabaseConfig"
        /\ SpecWithID(oldSteps, spec.Id).Config = "ChangeDatabaseConfig"
        /\ SpecWithID(oldSteps, spec.Id).Value.Sheet # spec.Value.Sheet }

\* C3: diffSpecs returns exactly the removed, the added and the updated specs,
\* however many of them one step holds.
C3_DiffSpecsExact ==
    (call.op = "diffSpecs" /\ ret.done) =>
        /\ Range(ret.removed) = RemovedSpecs(call.oldSteps, call.newSteps)
        /\ Range(ret.added) = AddedSpecs(call.oldSteps, call.newSteps)
        /\ Range(ret.updated) = UpdatedSpecs(call.oldSteps, call.newSteps)

-----------------------------------------------------------------------------
(* Properties of the spec expander (SpecExpand) *)

\* C9: every task a spec expands to carries the id of that spec in its payload.
C9_EveryTaskCarriesSpecID ==
    (call.op = "getTaskCreatesFromSpec" /\ ret.done /\ ret.err = NoError) =>
        \A i \in DOMAIN ret.tasks : ret.tasks[i].Payload.SpecID = call.spec.Id

\* a MIGRATE_GHOST spec on an existing database, with an existing sheet, handed to
\* the expander in a stage that has no other environment registered and under a
\* license that admits its earliest allowed time
IsGhostCase ==
    /\ call.op = "getTaskCreatesFromSpec"
    /\ call.spec.Config = "ChangeDatabaseConfig"
    /\ call.spec.Value.Type = "MIGRATE_GHOST"
    /\ LET id == getInstanceDatabaseID(call.spec.Value.Target)
           name == call.spec.Value.Sheet
       IN  /\ id.err = NoError
           /\ GetDatabaseV2(id.instanceID, id.databaseName).UID # 0
           /\ call.env \in {"", GetDatabaseV2(id.instanceID, id.databaseName).EnvironmentID}
           /\ Len(name) = 4 /\ name[1] = "projects" /\ name[3] = "sheets"
           /\ \E i \in DOMAIN UserSheets : name[4] \in DOMAIN NumeralOf /\ NumeralOf[name[4]] = UserSheets[i].UID
    /\ \/ IsFeatureEnabled(world, "TaskScheduleTime")
       \/ IsNil(call.spec.EarliestAllowedTime)

\* C10: a MIGRATE_GHOST spec on an existing database with an existing sheet expands
\* to exactly two tasks, GHOST_SYNC at index 0 and GHOST_CUTOVER at index 1, with
\* exactly one edge, from the sync task to the cutover task.
C10_GhostExpansion ==
    (IsGhostCase /\ ret.done) =>
        /\ ret.err = NoError
        /\ Len(ret.tasks) = 2
        /\ ret.tasks[1].Type = "DATABASE_SCHEMA_UPDATE_GHOST_SYNC"
        /\ ret.tasks[2].Type = "DATABASE_SCHEMA_UPDATE_GHOST_CUTOVER"
        /\ ret.dags = << [FromIndex |-> 0, ToIndex |-> 1] >>

C10_Witness ==
    /\ IsGhostCase
    /\ ret.done
    /\ call.spec.Value.Target = Target("i1", "db1")
    /\ Len(ret.tasks) = 2

\* the expander has returned from a RestoreDatabaseConfig spec
IsRestoreCall ==
    /\ call.op = "getTaskCreatesFromSpec"
    /\ call.spec.Config = "RestoreDatabaseConfig"
    /\ ret.done

TaskTypes(taskCreates) == [ i \in DOMAIN taskCreates |-> taskCreates[i].Type ]

\* C11: a RestoreDatabaseConfig that expands gives two tasks and the one edge (0,1):
\* DATABASE_CREATE then DATABASE_RESTORE_RESTORE when create_database_config is set,
\* DATABASE_RESTORE_RESTORE then DATABASE_RESTORE_CUTOVER when it is not.
C11_RestoreBranches ==
    (IsRestoreCall /\ ret.err = NoError) =>
        /\ ret.dags = << [FromIndex |-> 0, ToIndex |-> 1] >>
        /\ TaskTypes(ret.tasks) =
                IF IsNil(call.spec.Value.CreateDatabaseConfig)
                THEN <<"DATABASE_RESTORE_RESTORE", "DATABASE_RESTORE_CUTOVER">>
                ELSE <<"DATABASE_CREATE", "DATABASE_RESTORE_RESTORE">>

C11_Witness ==
    /\ IsRestoreCall
    /\ ret.err = NoError
    /\ ~IsNil(call.spec.Value.CreateDatabaseConfig)
    /\ TaskTypes(ret.tasks) = <<"DATABASE_CREATE", "DATABASE_RESTORE_RESTORE">>

\* C12: a RestoreDatabaseConfig with no source fails with no task and no sheet row
\* made, and every DATABASE_RESTORE_RESTORE task the expander returns has exactly one
\* of BackupID and PointInTimeTs set.
C12_ExactlyOneSource ==
    IsRestoreCall =>
        /\ IsNil(call.spec.Value.Source) =>
                /\ ret.err = "missing source in restore database config"
                /\ ret.tasks = <<>>
                /\ sheets = UserSheets
        /\ \A i \in DOMAIN ret.tasks :
                ret.tasks[i].Type = "DATABASE_RESTORE_RESTORE" =>
                    IsNil(ret.tasks[i].Payload.BackupID) # IsNil(ret.tasks[i].Payload.PointInTimeTs)

C12_Witness ==
    /\ IsRestoreCall
    /\ ret.err = NoError
    /\ IsNil(call.spec.Value.CreateDatabaseConfig)
    /\ call.spec.Value.Source[1].kind = "Backup"
    /\ ret.tasks[1].Payload.BackupID = Some(1)
    /\ IsNil(ret.tasks[1].Payload.PointInTimeTs)

-----------------------------------------------------------------------------
(* Properties of the service (Spec) *)

\* the environment a spec resolves to, "" when the spec does not expand
SpecEnvironment(spec) ==
    LET r == getTaskCreatesFromSpec(TheWorld, TheProject, spec, "", UserSheets)
    IN  IF r.err = NoError THEN r.env ELSE ""

\* some step holds two specs that resolve to two different environments
HasMixedStep(steps) ==
    \E i \in DOMAIN steps : \E j, k \in DOMAIN steps[i].Specs :
        /\ SpecEnvironment(steps[i].Specs[j]) # ""
        /\ SpecEnvironment(steps[i].Specs[k]) # ""
        /\ SpecEnvironment(steps[i].Specs[j]) # SpecEnvironment(steps[i].Specs[k])

\* every spec expands when it is taken alone, and no step is empty
ExpandsSpecBySpec(steps) ==
    \A i \in DOMAIN steps :
        /\ steps[i].Specs # <<>>
        /\ \A j \in DOMAIN steps[i].Specs : SpecEnvironment(steps[i].Specs[j]) # ""

\* the call of the client self makes a store call: it is at a store call of the
\* handler op, and takes the step from it
StepOf(self, op) ==
    /\ ret[self].op = op
    /\ ret[self].pc # "done"
    /\ ret'[self].n = ret[self].n + 1

\* the handler op answers the client self, after a store call or as the call arrives
Answers(self, op) ==
    /\ ret'[self].op = op
    /\ ret'[self].pc = "done"
    /\ \/ StepOf(self, op)
       \/ calls'[self] # calls[self]

\* the client self has the answer of the handler op
Answered(self, op) == ret[self].op = op /\ ret[self].pc = "done"

\* C2: a CreatePlan whose steps hold a step of two environments fails and creates
\* no pipeline, stage or task row; when nothing else is wrong with the steps the
\* error is the environment mismatch of registerEnvironmentID.
C2_SingleEnvironment ==
    [][ \A self \in Procs :
          /\ (StepOf(self, "CreatePlan") /\ HasMixedStep(call[self].steps)) =>
                /\ pipelines' = pipelines /\ stages' = stages /\ tasks' = tasks
                /\ taskDAGs' = taskDAGs /\ plans' = plans
          /\ (Answers(self, "CreatePlan") /\ HasMixedStep(call'[self].steps)) =>
                /\ ret'[self].code # "OK"
                /\ ExpandsSpecBySpec(call'[self].steps) =>
                        /\ ret'[self].code = "InvalidArgument"
                        /\ ret'[self].err = "expect only one environment in a stage" ]_vars

C2_Witness ==
    \E self \in Procs :
        /\ Answered(self, "CreatePlan")
        /\ HasMixedStep(call[self].steps)
        /\ ret[self].n > 0
        /\ ret[self].err = "expect only one environment in a stage"
        /\ pipelines = <<>> /\ stages = <<>> /\ tasks = <<>>

\* the steps drop a spec id of the stored steps, bring one they have not, or change
\* the sheet of no spec
RejectedSteps(old, new) ==
    \/ RemovedSpecs(old, new) # {}
    \/ AddedSpecs(old, new) # {}
    \/ UpdatedSpecs(old, new) = {}

\* C4: an UpdatePlan whose steps drop a spec id of the stored plan, bring a spec id
\* the stored plan has not, or change no spec's sheet fails with InvalidArgument at
\* the store call that reads the plan, and leaves every task row and the plan row as
\* they were.
C4_UpdateRejection ==
    [][ \A self \in Procs :
          (/\ StepOf(self, "UpdatePlan")
           /\ ret[self].pc = "GetPlan"
           /\ getPlanID(call[self].name).id \in DOMAIN plans
           /\ RejectedSteps(convertToPlanSteps(plans[getPlanID(call[self].name).id].Steps),
                            call[self].steps))
          => /\ ret'[self].pc = "done"
             /\ ret'[self].code = "InvalidArgument"
             /\ ret'[self].writes = 0
             /\ tasks' = tasks
             /\ plans' = plans ]_vars

C4_Witness ==
    \E self \in Procs :
        /\ Answered(self, "UpdatePlan")
        /\ getPlanID(call[self].name).id \in DOMAIN plans
        /\ RemovedSpecs(convertToPlanSteps(plans[getPlanID(call[self].name).id].Steps),
                        call[self].steps) # {}
        /\ ret[self].code = "InvalidArgument"
        /\ ret[self].err = "cannot remove specs from plan"

\* the id of the spec a task row was expanded from, read from the draft of its pipeline
OriginOf(taskID) ==
    LET task == tasks[taskID]
        stageIndex == Cardinality({ s \in DOMAIN stages :
                        stages[s].PipelineID = task.PipelineID /\ stages[s].ID <= task.StageID })
        taskIndex == Cardinality({ t \in DOMAIN tasks :
                        tasks[t].StageID = task.StageID /\ tasks[t].ID <= task.ID })
    IN  drafts[task.PipelineID].Origins[stageIndex][taskIndex]

\* C5: after a successful UpdatePlan that no store call of another call fell into,
\* every task of the plan's pipeline that was expanded from a spec whose sheet
\* changed, and whose type carries a sheet, points to the new sheet of that spec.
C5_UpdateRewritesSheets ==
    [][ \A self \in Procs :
          (Answers(self, "UpdatePlan") /\ ret'[self].code = "OK" /\ ~ret'[self].overlap) =>
            LET plan == ret'[self].oldPlan
            IN  \A spec \in UpdatedSpecs(convertToPlanSteps(plan.Steps), call[self].steps) :
                    \A t \in DOMAIN tasks :
                        (/\ tasks[t].PipelineID = plan.PipelineUID[1]
                         /\ OriginOf(t) = spec.Id
                         /\ tasks[t].Type \in SheetTaskTypes)
                        => tasks'[t].Payload.SheetID = resolveSheet(sheets, spec.Value.Sheet).sheetID ]_vars

\* C6: an UpdatePlan that fails to resolve the new sheet of an updated spec returns
\* an error and has written no task row.
C6_UpdateAllOrNothing ==
    [][ \A self \in Procs :
          (/\ Answers(self, "UpdatePlan")
           /\ ret'[self].err \in {"failed to get sheet id", "failed to convert sheet id to int",
                                  "sheet not found"})
          => /\ ret'[self].code # "OK"
             /\ ret'[self].writes = 0 ]_vars

\* the rows of a pipeline are those of its draft: its stages, the tasks of each
\* stage, and the edges of each stage between the rows of the tasks they index
PipelineIsWhole(pipelineID) ==
    LET draft == drafts[pipelineID].StageList
        stageIDs == { s \in DOMAIN stages : stages[s].PipelineID = pipelineID }
        stageAt(i) == CHOOSE s \in stageIDs : Cardinality({ x \in stageIDs : x < s }) = i - 1
        taskIDs(s) == { t \in DOMAIN tasks : tasks[t].StageID = s }
        taskAt(s, k) == CHOOSE t \in taskIDs(s) : Cardinality({ x \in taskIDs(s) : x < t }) = k
    IN  /\ Cardinality(stageIDs) = Len(draft)
        /\ \A i \in DOMAIN draft :
            /\ stages[stageAt(i)].EnvironmentID = draft[i].EnvironmentID
            /\ Cardinality(taskIDs(stageAt(i))) = Len(draft[i].TaskList)
            /\ \A k \in DOMAIN draft[i].TaskList :
                    tasks[taskAt(stageAt(i), k - 1)].Type = draft[i].TaskList[k].Type
            /\ \A e \in DOMAIN draft[i].TaskIndexDAGList :
                LET edge == draft[i].TaskIndexDAGList[e]
                IN  /\ edge.FromIndex < Len(draft[i].TaskList)
                    /\ edge.ToIndex < Len(draft[i].TaskList)
                    /\ \E d \in DOMAIN taskDAGs :
                        /\ taskDAGs[d].FromTaskID = taskAt(stageAt(i), edge.FromIndex)
                        /\ taskDAGs[d].ToTaskID = taskAt(stageAt(i), edge.ToIndex)

\* createPipeline is at work on the pipeline
InTheMaking(pipelineID) ==
    \E self \in Procs :
        /\ ret[self].op \in {"CreatePlan", "createPipeline"}
        /\ ret[self].pc # "done"
        /\ ret[self].m.pipelineID = pipelineID

\* C7: in every state, a pipeline row of the store that createPipeline is not at work
\* on has all the stages, tasks and edges of its draft.
C7_PipelineAllOrNothing ==
    \A p \in DOMAIN pipelines :
        ~InTheMaking(pipelines[p].ID) => PipelineIsWhole(pipelines[p].ID)

\* C8: a CreatePlan one of whose specs fails to expand has left no row behind, sheet
\* rows included.
C8_FailClosed ==
    [][ \A self \in Procs :
          (/\ Answers(self, "CreatePlan")
           /\ compilePC(ret'[self].c) = "failed"
           /\ ~IsPanic(ret'[self].c.err))
          => /\ ret'[self].code # "OK"
             /\ ret'[self].m.pipelineID = 0
             /\ ret'[self].made = 0 ]_vars

\* the steps of a request that hold at least one spec
StepsWithSpecs(steps) ==
    LET holdsSpecs(step) == step.Specs # <<>>
    IN  SelectSeq(steps, holdsSpecs)

\* C13: a step that gives no task is dropped: a CreatePlan whose store calls all
\* succeed answers as it does for the steps that hold specs, with 'no database
\* matched for deployment' when no step holds a spec, and leaves no stage row of its
\* pipeline without a task row.
C13_EmptyStepsDropped ==
    [][ \A self \in Procs :
          (Answers(self, "CreatePlan") /\ ~ret'[self].injected) =>
            /\ StepsWithSpecs(call'[self].steps) = <<>> =>
                    ret'[self].err = "no database matched for deployment"
            /\ ret'[self].code
                  = RunAlone(EmptyStore, CreatePlanStart(StepsWithSpecs(call'[self].steps))).frame.code
            /\ \A st \in DOMAIN stages' :
                    stages'[st].PipelineID = ret'[self].m.pipelineID =>
                        \E t \in DOMAIN tasks' : tasks'[t].StageID = stages'[st].ID ]_vars

-----------------------------------------------------------------------------
(* Properties of two UpdatePlan calls on one plan (SpecRace) *)

\* both calls have returned
RaceOver == \A self \in Procs : ret[self].op = "UpdatePlan" /\ "met" \in DOMAIN call[self] /\ ret[self].pc = "done"

\* a store call of one call fell between the store calls of the other
RaceOverlap == \E self \in Procs : ret[self].overlap

\* the store a call leaves when it runs with no other call between its store calls
AloneStoreOn(S, self) ==
    RunAlone(S, UpdatePlanStart(call[self].mask, call[self].name, call[self].steps)).store

\* the store after the call of `first` and then the call of `second` ran one after
\* the other on the store the two calls met
SerialStore(first, second) == AloneStoreOn(AloneStoreOn(call[first].met, first), second)

\* the store a call, run alone on the store the two calls met, leaves
AloneStore(self) == AloneStoreOn(call[self].met, self)

\* the plan row is no more the one the call of the client self read: the other call
\* has written it since
PlanRowIsStale(self) == plans[ret[self].oldPlan.UID] # ret[self].oldPlan

\* the task row the call of the client self is about to write is no more the one it
\* listed: the other call has written it since
TaskRowIsStale(self) == tasks[Head(ret[self].list).ID] # Head(ret[self].list)

\* C14: UpdatePlan is not serialized against another UpdatePlan on the same plan.
\* A call whose task row or plan row was written by the other call since it read it
\* still makes its write, which replaces what the other call wrote in that row and
\* touches no other row, and the call goes on to return OK: nothing in the handler
\* detects the other call.
C14_StaleWritesGoThrough ==
    [][ \A self \in Procs :
          StepOf(self, "UpdatePlan") =>
            /\ (ret[self].pc = "UpdateTaskV2" /\ TaskRowIsStale(self)) =>
                  /\ tasks'[Head(ret[self].list).ID].Payload.SheetID = ret[self].sheetIDInt
                  /\ \A t \in DOMAIN tasks : t # Head(ret[self].list).ID => tasks'[t] = tasks[t]
                  /\ plans' = plans
                  /\ ret'[self].writes = ret[self].writes + 1
            /\ (ret[self].pc = "UpdatePlan" /\ PlanRowIsStale(self)) =>
                  /\ plans'[ret[self].oldPlan.UID].Steps = convertPlanSteps(call[self].steps)
                  /\ tasks' = tasks
                  /\ ret'[self].pc = "GetUpdatedPlan"
            /\ ret[self].pc = "GetUpdatedPlan" =>
                  /\ ret'[self].pc = "done"
                  /\ ret'[self].code = "OK"
                  /\ plans' = plans /\ tasks' = tasks ]_vars

\* interleaved, both calls return OK, the task rows are those of one call and the
\* plan row that of the other, a store neither order of the two handlers leaves
C14_Witness ==
    /\ RaceOver
    /\ RaceOverlap
    /\ \A self \in Procs : ret[self].code = "OK"
    /\ \E a, b \in Procs :
            /\ a # b
            /\ tasks = AloneStore(a).tasks
            /\ tasks # AloneStore(b).tasks
            /\ plans = AloneStore(b).plans
            /\ plans # AloneStore(a).plans
    /\ \A first, second \in Procs :
            first # second =>
                \/ tasks # SerialStore(first, second).tasks
                \/ plans # SerialStore(first, second).plans

-----------------------------------------------------------------------------
(* Properties of the rollout rehydration (SpecRehydrate) *)

Rehydrated == call.op = "convertToRollout" /\ ret.done

\* some task row names a stage that is not in the stage list
DanglingStage ==
    \E k \in DOMAIN call.tasks :
        call.tasks[k].StageID \notin { call.stages[i].ID : i \in DOMAIN call.stages }

\* some task row is blocked by a task that is not in the task list
DanglingBlockedBy ==
    \E k \in DOMAIN call.tasks : \E b \in Range(call.tasks[k].BlockedBy) :
        b \notin { call.tasks[j].ID : j \in DOMAIN call.tasks }

\* the places (stage, position) of the rollout returned where the task of a row is
PlacesOf(row) ==
    { p \in UNION { { <<i, j>> : j \in DOMAIN ret.rollout.Stages[i].Tasks } :
                        i \in DOMAIN ret.rollout.Stages } :
        ret.rollout.Stages[p[1]].Tasks[p[2]].Uid = row.ID }

\* the name of the task of the row with this id
NameOfTask(id) ==
    LET row == CHOOSE row \in Range(call.tasks) : row.ID = id
    IN  <<"projects", TheProject.ResourceID, "rollouts", row.PipelineID,
          "stages", row.StageID, "tasks", row.ID>>

\* C15: convertToRollout fails, returning no rollout, whenever a task row names a
\* stage that is not in the stage list or a blocking task that is not in the task
\* list; a rollout it returns has every task once, in the stage of its StageID, with
\* the names of all the tasks that block it.
C15_RehydrateFailsClosed ==
    Rehydrated =>
        /\ (DanglingStage \/ DanglingBlockedBy) => ret.err # NoError
        /\ ret.err # NoError => ret.rollout = NoRollout
        /\ ret.err = NoError =>
              \A k \in DOMAIN call.tasks :
                  /\ Cardinality(PlacesOf(call.tasks[k])) = 1
                  /\ \A p \in PlacesOf(call.tasks[k]) :
                        /\ ret.rollout.Stages[p[1]].Uid = call.tasks[k].StageID
                        /\ ret.rollout.Stages[p[1]].Tasks[p[2]].BlockedByTasks
                              = [ b \in DOMAIN call.tasks[k].BlockedBy |->
                                    NameOfTask(call.tasks[k].BlockedBy[b]) ]

\* two tasks that convert, each in a stage of the list, one of them blocked by a task
\* that is not in the list: the call fails at the blocking task
C15_Witness ==
    /\ Rehydrated
    /\ Len(call.tasks) = 2
    /\ ~DanglingStage
    /\ DanglingBlockedBy
    /\ ret.err = "cannot find blocking task"
    /\ ret.rollout = NoRollout

-----------------------------------------------------------------------------
(* Properties of the task status (SpecStatus) *)

\* the draft a task row was written from, read from the draft of its pipeline
DraftOf(taskID) ==
    LET task == tasks[taskID]
        stageIndex == Cardinality({ s \in DOMAIN stages :
                        stages[s].PipelineID = task.PipelineID /\ stages[s].ID <= task.StageID })
        taskIndex == Cardinality({ t \in DOMAIN tasks :
                        tasks[t].StageID = task.StageID /\ tasks[t].ID <= task.ID })
    IN  drafts[task.PipelineID].StageList[stageIndex].TaskList[taskIndex]

\* the task drafts a CreatePlan call holds: those of the stage getPipelineCreate is
\* building, of the stages it has closed, and of the draft createPipeline was handed
HeldDrafts(f) ==
    IF f.op # "CreatePlan" THEN {}
    ELSE Range(f.c.stage.TaskList)
         \cup UNION { Range(f.c.StageList[i].TaskList) : i \in DOMAIN f.c.StageList }
         \cup UNION { Range(f.m.draft.StageList[i].TaskList) : i \in DOMAIN f.m.draft.StageList }

\* C16: every task draft an expander returns, of whatever variant and branch, is in
\* PENDING_APPROVAL, and so is every task row a call writes; no store call of
\* CreatePlan, UpdatePlan, GetPlan or GetRollout removes a task row or changes the
\* status of one, and those of GetPlan and GetRollout change no task row at all.
C16_StatusOnlyPendingApproval ==
    [][ /\ \A self \in Procs : \A d \in HeldDrafts(ret'[self]) : d.Status = "PENDING_APPROVAL"
        /\ \A t \in DOMAIN tasks' : t \notin DOMAIN tasks => tasks'[t].Status = "PENDING_APPROVAL"
        /\ \A t \in DOMAIN tasks : t \in DOMAIN tasks' /\ tasks'[t].Status = tasks[t].Status
        /\ \A self \in Procs :
              (StepOf(self, "GetPlan") \/ StepOf(self, "GetRollout")) => tasks' = tasks ]_vars

\* a plan of a MIGRATE and a BASELINE spec was created, an UpdatePlan returned OK
\* after it wrote a new sheet to the task of the first, a GetPlan of the other client
\* returned the plan, and both task rows are in PENDING_APPROVAL
C16_Witness ==
    /\ Answered(1, "UpdatePlan")
    /\ ret[1].code = "OK"
    /\ ret[1].writes > 0
    /\ Answered(2, "GetPlan")
    /\ ret[2].code = "OK"
    /\ Len(tasks) = 2
    /\ tasks[1].Payload.SheetID # DraftOf(1).Payload.SheetID
    /\ tasks[2].Type = "DATABASE_SCHEMA_BASELINE"
    /\ \A t \in DOMAIN tasks : tasks[t].Status = "PENDING_APPROVAL"

-----------------------------------------------------------------------------
(* Properties of the engine validation (SpecCheck) *)

\* C17: Spanner, ClickHouse and Snowflake take neither a character set nor a
\* collation; Postgres and Redshift take any of both and need an owner; SQLite,
\* MongoDB and MSSQL take everything; every other engine needs both a character set
\* and a collation.
C17_EngineMatrix ==
    (call.op = "checkCharacterSetCollationOwner" /\ ret.done) =>
        (ret.err = NoError) =
            CASE call.dbType \in {"SPANNER", "CLICKHOUSE", "SNOWFLAKE"} ->
                    call.characterSet = "" /\ call.collation = ""
              [] call.dbType \in {"POSTGRES", "REDSHIFT"} -> call.owner # ""
              [] call.dbType \in {"SQLITE", "MONGODB", "MSSQL"} -> TRUE
              [] OTHER -> call.characterSet # "" /\ call.collation # ""

\* MySQL, an engine of the last row, with a character set and no collation: rejected
C17_Witness ==
    /\ call.op = "checkCharacterSetCollationOwner"
    /\ ret.done
    /\ call.dbType = "MYSQL"
    /\ call.characterSet # ""
    /\ call.collation = ""
    /\ ret.err = "collation missing"

-----------------------------------------------------------------------------
(* Properties of the CreateDatabaseConfig expander (SpecExpand) *)

\* the call expanded a CreateDatabaseConfig with a database name on instance i1, a
\* MySQL instance
IsMySQLCreateCall ==
    /\ call.op = "getTaskCreatesFromSpec"
    /\ ret.done
    /\ call.spec.Config = "CreateDatabaseConfig"
    /\ call.spec.Value.Target = <<"instances", "i1">>
    /\ call.spec.Value.Database # ""

\* C18: on a MySQL instance the expansion succeeds whatever the probe of
\* lower_case_table_names does, and the task carries the requested database name,
\* in lower case when the probe answers 1 and as requested when it answers another
\* value or fails.
C18_ProbeIsBestEffort ==
    IsMySQLCreateCall =>
        /\ ret.err = NoError
        /\ Len(ret.tasks) = 1
        /\ ret.tasks[1].DatabaseName =
                IF world.Probe = "1" THEN ToLower(call.spec.Value.Database)
                                     ELSE call.spec.Value.Database
        /\ ret.tasks[1].Payload.DatabaseName = ret.tasks[1].DatabaseName
        /\ sheets[Len(sheets)].Statement[2] = ret.tasks[1].DatabaseName

\* the admin driver failed, and the task creates database Shop under that name
C18_Witness ==
    /\ IsMySQLCreateCall
    /\ world.Probe = "driver failed"
    /\ ret.err = NoError
    /\ ret.tasks[1].DatabaseName = "Shop"
    /\ ToLower("Shop") # "Shop"

-----------------------------------------------------------------------------
(* Properties of two compilations of one request (SpecCompile) *)

Recompiled == call.op = "getPipelineCreate" /\ ret.done /\ ret.again

\* a task draft without the identifier the call generated for it
WithoutSheetID(taskCreate) == [taskCreate EXCEPT !.Payload.SheetID = 0]

\* the ids of the sheets the ChangeDatabaseConfig specs of the steps name
NamedSheets(steps) ==
    { Atoi(getProjectResourceIDSheetID(spec.Value.Sheet).sheet).n :
        spec \in { s \in Range(FlatSpecs(steps)) : s.Config = "ChangeDatabaseConfig" } }

\* the external state the steps read is the same for both calls: no sheet they name
\* was created since the first call began, by the calls or by another request
SameExternalState == \A id \in NamedSheets(call.steps) : GetSheetV2(sheets, id) => GetSheetV2(UserSheets, id)

C19_SheetOfTheFirstCall ==
    /\ Recompiled
    /\ calls = 0
    /\ Compiled.err = "sheet not found"
    /\ CompiledAgain.err = NoError

-----------------------------------------------------------------------------
(* Properties of the expansion of a CreateDatabaseConfig (SpecExpand) *)

IsCreateCall ==
    /\ call.op = "getTaskCreatesFromSpec"
    /\ ret.done
    /\ call.spec.Config = "CreateDatabaseConfig"

\* the instance the config of the call targets
CreateInstance == GetInstanceV2(getInstanceID(call.spec.Value.Target).instanceID)

\* C20: a CreateDatabaseConfig that expands gives one DATABASE_CREATE task in
\* PENDING_APPROVAL on the instance, with no database id, and no edge; it is
\* rejected, with no task and no sheet written, when the database name is empty, the
\* engine is Oracle, or the engine is MongoDB and the table is empty; on a MySQL
\* instance, with utf8mb4 and utf8mb4_general_ci, it expands and registers the
\* environment of the instance for the stage.
C20_CreateDatabaseExpansion ==
    IsCreateCall =>
        /\ ret.err = NoError =>
              /\ Len(ret.tasks) = 1
              /\ ret.tasks[1].Type = "DATABASE_CREATE"
              /\ ret.tasks[1].Status = "PENDING_APPROVAL"
              /\ ret.tasks[1].InstanceID = CreateInstance.UID
              /\ CreateInstance.UID # 0
              /\ ret.tasks[1].DatabaseID = 0
              /\ ret.dags = <<>>
        /\ (\/ call.spec.Value.Database = ""
            \/ CreateInstance.Engine = "ORACLE"
            \/ CreateInstance.Engine = "MONGODB" /\ call.spec.Value.Table = "")
              => /\ ret.err # NoError
                 /\ ret.tasks = <<>>
                 /\ sheets = UserSheets
        /\ (/\ CreateInstance.Engine = "MYSQL"
            /\ call.spec.Value.Database # ""
            /\ call.spec.Value.CharacterSet = "utf8mb4"
            /\ call.spec.Value.Collation = "utf8mb4_general_ci"
            /\ call.env \in {"", CreateInstance.EnvironmentID})
              => /\ ret.err = NoError
                 /\ ret.env = CreateInstance.EnvironmentID
                 /\ Len(sheets) = Len(UserSheets) + 1

\* a database on the MySQL instance, in a stage with no environment yet: one task,
\* and the environment of the instance registered
C20_Witness ==
    /\ IsCreateCall
    /\ CreateInstance.Engine = "MYSQL"
    /\ call.env = ""
    /\ ret.err = NoError
    /\ Len(ret.tasks) = 1
    /\ ret.tasks[1].Type = "DATABASE_CREATE"
    /\ ret.env = "e1"

-----------------------------------------------------------------------------
(* Properties of the expansion of a ChangeDatabaseConfig (SpecExpand) *)

IsChangeCall ==
    /\ call.op = "getTaskCreatesFromSpec"
    /\ ret.done
    /\ call.spec.Config = "ChangeDatabaseConfig"

\* the config of the call names a database of the store in the environment of the
\* stage, and a sheet of the store
ChangeResolves ==
    LET c == call.spec.Value
        id == getInstanceDatabaseID(c.Target)
        database == GetDatabaseV2(id.instanceID, id.databaseName)
        sheet == getProjectResourceIDSheetID(c.Sheet)
    IN  /\ id.err = NoError
        /\ database.UID # 0
        /\ call.env \in {"", database.EnvironmentID}
        /\ sheet.err = NoError
        /\ Atoi(sheet.sheet).err = NoError
        /\ GetSheetV2(UserSheets, Atoi(sheet.sheet).n)

\* the task type of each config type that expands to one task
SingleTaskType ==
    [ BASELINE    |-> "DATABASE_SCHEMA_BASELINE",
      MIGRATE     |-> "DATABASE_SCHEMA_UPDATE",
      MIGRATE_SDL |-> "DATABASE_SCHEMA_UPDATE_SDL",
      DATA        |-> "DATABASE_DATA_UPDATE" ]

\* C21: on a database and a sheet of the store, DATA expands to one
\* DATABASE_DATA_UPDATE task with rollback status PENDING and the rollback flag of the
\* config, and no edge; BASELINE, MIGRATE and MIGRATE_SDL expand to one task of their
\* type and no edge; a type that is none of these nor MIGRATE_GHOST fails as
\* unsupported, with no task.
C21_SingleTaskExpansion ==
    IsChangeCall =>
        LET c == call.spec.Value
        IN  /\ (ChangeResolves /\ c.Type \in DOMAIN SingleTaskType) =>
                  /\ ret.err = NoError
                  /\ Len(ret.tasks) = 1
                  /\ ret.tasks[1].Type = SingleTaskType[c.Type]
                  /\ ret.dags = <<>>
                  /\ c.Type = "DATA" =>
                        /\ ret.tasks[1].Payload.RollbackSQLStatus = "PENDING"
                        /\ ret.tasks[1].Payload.RollbackEnabled = c.RollbackEnabled
            /\ c.Type \notin (DOMAIN SingleTaskType \cup {"MIGRATE_GHOST"}) =>
                  /\ ret.err # NoError
                  /\ ret.tasks = <<>>
                  /\ ChangeResolves => ret.err = "unsupported change database config type"

\* a DATA config with the rollback flag set, expanded to its one task
C21_Witness ==
    /\ IsChangeCall
    /\ ChangeResolves
    /\ call.spec.Value.Type = "DATA"
    /\ call.spec.Value.RollbackEnabled
    /\ ret.err = NoError
    /\ Len(ret.tasks) = 1
    /\ ret.tasks[1].Payload.RollbackEnabled

-----------------------------------------------------------------------------
(* Properties of the status of a rehydrated task (SpecRehydrate) *)

\* the tasks of the rollout returned, stage by stage
RolloutTasks == Flatten([ i \in DOMAIN ret.rollout.Stages |-> ret.rollout.Stages[i].Tasks ])

\* the row a task of the rollout was converted from
RowOf(task) == CHOOSE row \in Range(call.tasks) : row.ID = task.Uid

\* C22: a task row in RUNNING renders as SKIPPED when the skipped flag of its payload
\* is set and as RUNNING when it is not; PENDING_APPROVAL, PENDING, DONE, FAILED and
\* CANCELED render as themselves whatever the flag is; every other stored status
\* renders as STATUS_UNSPECIFIED.
C22_StatusRendering ==
    (Rehydrated /\ ret.err = NoError) =>
        \A k \in DOMAIN RolloutTasks :
            LET row == RowOf(RolloutTasks[k])
            IN  RolloutTasks[k].Status =
                    CASE row.Status = "RUNNING" /\ row.Payload.Skipped -> "SKIPPED"
                      [] row.Status = "RUNNING" /\ ~row.Payload.Skipped -> "RUNNING"
                      [] row.Status \in {"PENDING_APPROVAL", "PENDING", "DONE", "FAILED", "CANCELED"}
                            -> row.Status
                      [] OTHER -> "STATUS_UNSPECIFIED"

\* a task row in RUNNING with the skipped flag set, rendered as SKIPPED
C22_Witness ==
    /\ Rehydrated
    /\ ret.err = NoError
    /\ \E k \in DOMAIN RolloutTasks :
            /\ RowOf(RolloutTasks[k]).Status = "RUNNING"
            /\ RowOf(RolloutTasks[k]).Payload.Skipped
            /\ RolloutTasks[k].Status = "SKIPPED"

-----------------------------------------------------------------------------
(* Properties of the edges of a draft (SpecCompile) *)

\* C23: in every pipeline draft getPipelineCreate returns, every edge of a stage goes
\* from a task of the stage to a later task of the stage: 0 <= from < to < the number
\* of tasks of the stage.
C23_EdgesWithinStage ==
    (call.op = "getPipelineCreate" /\ ret.done /\ Compiled.err = NoError) =>
        \A i \in DOMAIN Compiled.StageList :
            \A edge \in StageEdges(Compiled.StageList[i]) :
                /\ 0 <= edge[1]
                /\ edge[1] < edge[2]
                /\ edge[2] < Len(Compiled.StageList[i].TaskList)

-----------------------------------------------------------------------------
(* Properties of the order of stages and tasks (SpecOrder) *)

\* the tasks a spec expands to when it is taken alone
AloneTasks(spec) == getTaskCreatesFromSpec(TheWorld, TheProject, spec, "", UserSheets).tasks

\* of each task of the specs, in spec order and expansion order: the spec it comes
\* from, its type and what it runs on
InSpecOrder(specs) ==
    Flatten([ k \in DOMAIN specs |->
                [ j \in DOMAIN AloneTasks(specs[k]) |->
                    << specs[k].Id, AloneTasks(specs[k])[j].Type,
                       AloneTasks(specs[k])[j].InstanceID, AloneTasks(specs[k])[j].DatabaseID >> ] ])

\* the same of the tasks of a stage of a draft
InDraftOrder(draft, i) ==
    [ k \in DOMAIN draft.StageList[i].TaskList |->
        << draft.Origins[i][k], draft.StageList[i].TaskList[k].Type,
           draft.StageList[i].TaskList[k].InstanceID, draft.StageList[i].TaskList[k].DatabaseID >> ]

\* the ids in `ids`, in rising order
Rising(ids) ==
    [ k \in 1..Cardinality(ids) |-> CHOOSE x \in ids : Cardinality({ y \in ids : y < x }) = k - 1 ]

\* the rows of `after` that are not in `before`, a list the step appended to
Appended(before, after) == SubSeq(after, Len(before) + 1, Len(after))

\* C24: the draft getPipelineCreate returns has a stage for each step, in step order,
\* with the tasks of the specs of the step in spec order, those of one spec together
\* and in expansion order, and the environment of each stage is the one environment
\* of the specs of its step; createPipeline appends the stage rows in the order of
\* the stages of the draft, and the task rows stage by stage, those of a stage in
\* the order of its drafts; and when CreatePlan returns OK the stage rows and task
\* rows of the pipeline, in id order, are those of the draft in its order.
C24_OrderPreserved ==
    [][ \A self \in Procs :
          StepOf(self, "CreatePlan") =>
            LET steps == call[self].steps
                m == ret[self].m
                draft == ret'[self].m.draft
                pipelineID == ret'[self].m.pipelineID
                stageIDs == Rising({ x \in DOMAIN stages' : stages'[x].PipelineID = pipelineID })
            IN  /\ draft.StageList # <<>> =>
                      /\ Len(draft.StageList) = Len(steps)
                      /\ \A i \in DOMAIN steps :
                            /\ InDraftOrder(draft, i) = InSpecOrder(steps[i].Specs)
                            /\ \A k \in DOMAIN steps[i].Specs :
                                  GetEnvironmentV2(SpecEnvironment(steps[i].Specs[k])).UID
                                      = draft.StageList[i].EnvironmentID
                /\ stages' # stages =>
                      Appended(stages, stages') =
                          [ i \in DOMAIN draft.StageList |->
                              [ID |-> Len(stages) + i, PipelineID |-> pipelineID,
                               EnvironmentID |-> draft.StageList[i].EnvironmentID] ]
                /\ tasks' # tasks =>
                      /\ Appended(tasks, tasks') =
                            [ k \in DOMAIN draft.StageList[m.s].TaskList |->
                                TaskRow(Len(tasks) + k, pipelineID, m.stageIDs[m.s],
                                        draft.StageList[m.s].TaskList[k]) ]
                      /\ \A t \in DOMAIN tasks :
                            tasks[t].PipelineID = pipelineID => tasks[t].StageID < m.stageIDs[m.s]
                /\ (ret'[self].pc = "done" /\ ret'[self].code = "OK") =>
                      /\ Len(stageIDs) = Len(steps)
                      /\ \A i \in DOMAIN steps :
                            LET taskIDs == Rising({ t \in DOMAIN tasks' : tasks'[t].StageID = stageIDs[i] })
                            IN  /\ stages'[stageIDs[i]].EnvironmentID = draft.StageList[i].EnvironmentID
                                /\ Len(taskIDs) = Len(draft.StageList[i].TaskList)
                                /\ \A k \in DOMAIN taskIDs :
                                      tasks'[taskIDs[k]] =
                                          TaskRow(taskIDs[k], pipelineID, stageIDs[i],
                                                  draft.StageList[i].TaskList[k]) ]_vars

\* a plan was created of one step with a gh-ost migration and two migrations: the
\* four task rows of its stage are the two of the first spec, sync before cutover,
\* then that of the second spec, then that of the third
C24_Witness ==
    \E self \in Procs :
        /\ Answered(self, "CreatePlan")
        /\ ret[self].code = "OK"
        /\ Len(call[self].steps) = 1
        /\ Len(call[self].steps[1].Specs) = 3
        /\ Len(stages) = 1
        /\ Len(tasks) = 4
        /\ [ t \in 1..4 |-> tasks[t].Type ] =
              << "DATABASE_SCHEMA_UPDATE_GHOST_SYNC", "DATABASE_SCHEMA_UPDATE_GHOST_CUTOVER",
                 "DATABASE_SCHEMA_UPDATE", "DATABASE_SCHEMA_UPDATE" >>
        /\ [ t \in 1..4 |-> OriginOf(t) ] = << "A", "A", "B", "C" >>

-----------------------------------------------------------------------------
(* Properties of what UpdatePlan leaves alone (SpecFrame) *)

\* what a store call of the UpdatePlan of the client self leaves alone: every row but
\* task rows and the plan row of the request; a task row it changes is of the
\* pipeline of the plan, of a type that carries a sheet and of an updated spec, and
\* only its sheet id changes; the plan row keeps its uid and its pipeline
UpdateLeavesAlone(self) ==
    LET planID == ret[self].oldPlan.UID
        updated == { ret[self].updated[i].Id : i \in DOMAIN ret[self].updated }
    IN  /\ sheets' = sheets
        /\ pipelines' = pipelines
        /\ stages' = stages
        /\ taskDAGs' = taskDAGs
        /\ issues' = issues
        /\ DOMAIN tasks' = DOMAIN tasks
        /\ \A t \in DOMAIN tasks :
              tasks'[t] # tasks[t] =>
                  /\ tasks[t].PipelineID = ret[self].oldPlan.PipelineUID[1]
                  /\ tasks[t].Type \in SheetTaskTypes
                  /\ tasks[t].Payload.SpecID \in updated
                  /\ tasks'[t] = [tasks[t] EXCEPT !.Payload.SheetID = tasks'[t].Payload.SheetID]
        /\ DOMAIN plans' = DOMAIN plans
        /\ \A p \in DOMAIN plans :
              /\ p # planID => plans'[p] = plans[p]
              /\ plans'[p] = [plans[p] EXCEPT !.Steps = plans'[p].Steps]

\* the frame of the rows alone, without the steps of the plan row
UpdateFrameOfRows == [][ \A self \in Procs : StepOf(self, "UpdatePlan") => UpdateLeavesAlone(self) ]_vars

\* C25: no store call of UpdatePlan changes a row but task rows and the plan row of
\* the request; a task row it changes is of the pipeline of the plan, of a type that
\* carries a sheet and of an updated spec, and only its sheet id changes; the plan
\* row keeps its uid and its pipeline, and its steps become the submitted steps.
C25_UpdateFrame ==
    [][ \A self \in Procs :
          StepOf(self, "UpdatePlan") =>
            /\ UpdateLeavesAlone(self)
            /\ plans' # plans =>
                  convertToPlanSteps(plans'[ret[self].oldPlan.UID].Steps) = call[self].steps ]_vars

-----------------------------------------------------------------------------
(* Properties of the feature gates of the expander (SpecGate) *)

GateCallDone == call.op = "getTaskCreatesFromSpec" /\ ret.done

\* what the call of the state returns where every feature is licensed
Ungated ==
    getTaskCreatesFromSpec([world EXCEPT !.Features = {"TaskScheduleTime", "MultiTenancy"}],
                           TheProject, call.spec, call.env, UserSheets)

\* C26: without the feature TaskScheduleTime, a spec whose earliest_allowed_time is
\* set and not zero fails with no task and no sheet written, and a spec whose
\* earliest_allowed_time is not set or zero expands as it does with the feature; in
\* a tenant project without the feature MultiTenancy a CreateDatabaseConfig fails
\* with no task and no sheet written.
C26_FeatureGating ==
    GateCallDone =>
        /\ (~IsFeatureEnabled(world, "TaskScheduleTime")
              /\ ~IsNil(call.spec.EarliestAllowedTime) /\ GetSeconds(call.spec.EarliestAllowedTime) # 0)
            => /\ ret.err # NoError
               /\ ret.tasks = <<>>
               /\ sheets = UserSheets
        /\ (~IsFeatureEnabled(world, "TaskScheduleTime") /\ call.project = TheProject
              /\ GetSeconds(call.spec.EarliestAllowedTime) = 0)
            => /\ ret.err = Ungated.err
               /\ ret.tasks = Ungated.tasks
        /\ (call.project.TenantMode = "TENANT" /\ ~IsFeatureEnabled(world, "MultiTenancy")
              /\ call.spec.Config = "CreateDatabaseConfig")
            => /\ ret.err # NoError
               /\ ret.tasks = <<>>
               /\ sheets = UserSheets

-----------------------------------------------------------------------------
(* Properties of the restore to a new database (SpecExpand) *)

\* the call restores to a new database
IsRestoreToNewCall == IsRestoreCall /\ ~IsNil(call.spec.Value.CreateDatabaseConfig)

\* the original database of the call, and the instance of the nested config
RestoreOriginal ==
    LET id == getInstanceDatabaseID(call.spec.Value.Target)
    IN  GetDatabaseV2(id.instanceID, id.databaseName)

RestoreTargetInstance ==
    GetInstanceV2(getInstanceID(call.spec.Value.CreateDatabaseConfig[1].Target).instanceID)

\* C27: a restore to a new database of an original database that is in the store
\* fails, with no task and the environment of the stage as it was, when the original
\* is not in the project; with the original in the project it fails with no task
\* when the instance of the nested config is in another environment than the
\* original, the stage then holding the environment of the original or the one it
\* had; and when it expands the stage holds the one environment of both.
C27_RestoreToNewDatabase ==
    (IsRestoreToNewCall /\ ~IsNil(call.spec.Value.Source) /\ RestoreOriginal.UID # 0) =>
        /\ RestoreOriginal.ProjectID # call.project.ResourceID
            => /\ ret.err # NoError
               /\ ret.tasks = <<>>
               /\ ret.env = call.env
        /\ (RestoreOriginal.ProjectID = call.project.ResourceID
              /\ RestoreTargetInstance.EnvironmentID # RestoreOriginal.EnvironmentID)
            => /\ ret.err # NoError
               /\ ret.tasks = <<>>
               /\ ret.env = (IF call.env = "" THEN RestoreOriginal.EnvironmentID ELSE call.env)
        /\ ret.err = NoError
            => /\ RestoreOriginal.ProjectID = call.project.ResourceID
               /\ RestoreTargetInstance.EnvironmentID = RestoreOriginal.EnvironmentID
               /\ ret.env = RestoreOriginal.EnvironmentID

\* a restore of db1 (environment e1) to a new database on i2 (environment e2), with
\* the owner PostgreSQL asks for, on a stage with no environment yet: it fails on the
\* second registration
C27_Witness ==
    /\ IsRestoreToNewCall
    /\ ~IsNil(call.spec.Value.Source)
    /\ call.env = ""
    /\ RestoreOriginal.UID # 0
    /\ RestoreOriginal.ProjectID = call.project.ResourceID
    /\ RestoreTargetInstance.UID # 0
    /\ RestoreTargetInstance.EnvironmentID # RestoreOriginal.EnvironmentID
    /\ call.spec.Value.CreateDatabaseConfig[1].Owner # ""
    /\ ret.err = "expect only one environment in a stage"
    /\ ret.env = RestoreOriginal.EnvironmentID
    /\ ret.tasks = <<>>

-----------------------------------------------------------------------------
(* Properties of the pairing of pipelines and plans (Spec) *)

\* the plans of the store that reference the pipeline
PlansOfPipeline(pipelineID) ==
    { i \in DOMAIN plans : plans[i].PipelineUID = Some(pipelineID) }

\* C28: when no CreatePlan is between two store calls, every pipeline of the store is
\* referenced by exactly one plan, and every plan references one pipeline of the
\* store, after CreatePlan calls that succeed or fail at any of their steps.
C28_PipelineAndPlanOneToOne ==
    (\A self \in Procs : ret[self].op = "CreatePlan" => ret[self].pc = "done") =>
        /\ \A i \in DOMAIN pipelines : Cardinality(PlansOfPipeline(pipelines[i].ID)) = 1
        /\ \A i \in DOMAIN plans :
              /\ ~IsNil(plans[i].PipelineUID)
              /\ \E j \in DOMAIN pipelines : pipelines[j].ID = plans[i].PipelineUID[1]

-----------------------------------------------------------------------------
(* SpecRoundTrip: plan steps written to the store form and read back *)

MaxRoundTripSpecs == 2

\* the rollback details of a ChangeDatabaseConfig: none, both names, the task alone
RoundTripDetails ==
    { Nil,
      Some([RollbackFromReview |-> "projects/p1/reviews/1", RollbackFromTask |-> "projects/p1/rollouts/1/stages/1/tasks/1"]),
      Some([RollbackFromReview |-> "", RollbackFromTask |-> "projects/p1/rollouts/1/stages/1/tasks/1"]) }

RoundTripSpecs ==
    { [PlanSpec("A", "ChangeDatabaseConfig",
                [ChangeDatabaseConfig(Target("i1", "db1"), SheetName("p1", "1"), type)
                    EXCEPT !.RollbackDetail = detail, !.RollbackEnabled = ~IsNil(detail)])
          EXCEPT !.EarliestAllowedTime = time] :
        type \in {"MIGRATE", "DATA"}, detail \in RoundTripDetails, time \in {Nil, Some(7)} }
    \cup { PlanSpec("A", "CreateDatabaseConfig",
                    [CreateDatabaseConfig(<<"instances", "i2">>, "Shop") EXCEPT !.Owner = "app", !.Labels = 2]) }
    \cup { PlanSpec("A", "RestoreDatabaseConfig", RestoreDatabaseConfig(Target("i1", "db1"), source, create)) :
             source \in ExpandSources \ {Nil},
             create \in {Nil, Some(CreateDatabaseConfig(<<"instances", "i1">>, "Shop"))} }

MaxRoundTripSteps == 2

\* every cut into steps of at most MaxRoundTripSpecs specs, with ids in order
RoundTripSteps == PlansOver(RoundTripSpecs, MaxRoundTripSpecs, MaxRoundTripSteps, 0)

InitRoundTrip ==
    /\ StoreInit
    /\ world = TheWorld
    /\ call \in { [op |-> "convertPlanSteps", steps |-> steps] :
                    steps \in RoundTripSteps }
    /\ ret = Pending

\* convertPlanSteps as CreatePlan and UpdatePlan store the steps, then
\* convertToPlanSteps as convertToPlan returns them
RoundTrip ==
    /\ call.op = "convertPlanSteps"
    /\ ~ret.done
    /\ \E stored \in { convertPlanSteps(call.steps) } :
          ret' = [done |-> TRUE, stored |-> stored, steps |-> convertToPlanSteps(stored)]
    /\ UNCHANGED <<sheets, pipelines, stages, tasks, taskDAGs, issues, plans, drafts, calls, world, call>>

SpecRoundTrip == InitRoundTrip /\ [][RoundTrip]_vars

\* C29: the steps read back from the store form are the steps that were written,
\* in step order and spec order, with every spec's id, earliest_allowed_time,
\* config variant and config fields, the rollback detail of a ChangeDatabaseConfig
\* included.
C29_StepsRoundTrip ==
    (call.op = "convertPlanSteps" /\ ret.done) => ret.steps = call.steps

-----------------------------------------------------------------------------
(* SpecMaterialize: createPipeline on a draft, store call by store call, and
   GetRollout of the pipeline by the other client *)

MaxMaterializeStages == 2

MaxMaterializeTasks == 3

\* the k-th task draft of a stage: a database create, then schema updates of db1,
\* of the spec SpecIDs[k]
MaterializeTask(k) ==
    IF k = 1
    THEN TaskCreate(1, 0, TaskPendingApproval, "DATABASE_CREATE", [EmptyPayload EXCEPT !.SpecID = SpecIDs[k], !.SheetID = 1], 0)
    ELSE TaskCreate(1, 1, TaskPendingApproval, "DATABASE_SCHEMA_UPDATE", [EmptyPayload EXCEPT !.SpecID = SpecIDs[k], !.SheetID = 2], 0)

Edge(from, to) == [FromIndex |-> from, ToIndex |-> to]

\* the edge lists of a stage: none, chains and joins within three tasks, an edge
\* back, and the edge of the online migration shifted by its own two tasks
MaterializeEdges ==
    { <<>>, << Edge(0, 1) >>, << Edge(0, 2) >>, << Edge(0, 1), Edge(1, 2) >>,
      << Edge(0, 2), Edge(1, 2) >>, << Edge(1, 0) >>, << Edge(2, 3) >> }

MaterializeStages(environmentID) ==
    { [EnvironmentID |-> environmentID,
       TaskList |-> [ k \in 1..n |-> MaterializeTask(k) ],
       TaskIndexDAGList |-> edges] :
        n \in 1..MaxMaterializeTasks, edges \in MaterializeEdges }

MaterializeDrafts ==
    { [StageList |-> stageList,
       Origins |-> [ i \in DOMAIN stageList |->
                       [ k \in DOMAIN stageList[i].TaskList |-> stageList[i].TaskList[k].Payload.SpecID ] ]] :
        stageList \in { << a >> : a \in MaterializeStages(1) }
                      \cup { << a, b >> : a \in MaterializeStages(1), b \in MaterializeStages(2) } }

\* the call of createPipeline as it stands
Materializing(m, n) ==
    [op |-> "createPipeline", pc |-> IF m.pc \in {"created", "failed"} THEN "done" ELSE m.pc,
     n |-> n, overlap |-> FALSE, m |-> m, err |-> m.err]

\* the first client has called createPipeline on a draft
InitMaterialize ==
    /\ EmptyTables
    /\ calls = NoCalls
    /\ world = TheWorld
    /\ \E draft \in { d \in MaterializeDrafts : Len(d.StageList) <= MaxMaterializeStages } :
          /\ call = [self \in Procs |-> IF self = 1 THEN [op |-> "createPipeline", draft |-> draft]
                                                    ELSE [op |-> "none"]]
          /\ ret = [self \in Procs |-> IF self = 1 THEN Materializing(MaterializeStart(draft), 0)
                                                   ELSE Idle]

\* createPipeline makes its next store call, which succeeds or returns an error
Materialize ==
    /\ ret[1].op = "createPipeline"
    /\ ret[1].pc # "done"
    /\ \E fail \in BOOLEAN :
          \E r \in { createPipeline(Store, ret[1].m, fail) } :
              TakeStep(1, [store |-> r.store, frame |-> Materializing(r.frame, ret[1].n + 1)])

NextMaterialize == Materialize \/ GetRollout(2) \/ GetRolloutStep(2)

SpecMaterialize == InitMaterialize /\ [][NextMaterialize]_vars

-----------------------------------------------------------------------------
(* Properties of a draft made into rows and read back (SpecMaterialize) *)

\* createPipeline has made the draft into rows, and GetRollout, called after that,
\* has answered on the pipeline
ReadBack ==
    /\ ret[1].op = "createPipeline"
    /\ ret[1].m.pc = "created"
    /\ ret[2].op = "GetRollout"
    /\ ret[2].pc = "done"
    /\ call[2].quiet
    /\ call[2].name = RolloutName(TheProject.ResourceID, Itoa(ret[1].m.pipelineID))

\* the names of the tasks of stage i of the rollout that the draft edges of the stage
\* lead into its task k
DraftBlockers(i, k) ==
    LET stage == call[1].draft.StageList[i]
    IN  { ret[2].rollout.Stages[i].Tasks[d.FromIndex + 1].Name :
            d \in { e \in Range(stage.TaskIndexDAGList) : e.ToIndex + 1 = k } }

\* C30: when createPipeline has made a draft into rows, GetRollout answers with one
\* stage per stage of the draft in the order of the draft, under each stage one task
\* per task of the draft stage in the order of the draft, every task named under the
\* stage that holds it and held by no other stage, and blocked by the names of
\* exactly the tasks that have a draft edge into it.
C30_MaterializeThenRehydrate ==
    ReadBack =>
        LET draft == call[1].draft.StageList
            rollout == ret[2].rollout
        IN  /\ ret[2].err = NoError
            /\ Len(rollout.Stages) = Len(draft)
            /\ \A i \in DOMAIN draft :
                  /\ rollout.Stages[i].Environment
                        = <<"environments", FindByUID(Range(Environments), draft[i].EnvironmentID, NilEnvironment).ResourceID>>
                  /\ Len(rollout.Stages[i].Tasks) = Len(draft[i].TaskList)
                  /\ \A k \in DOMAIN draft[i].TaskList :
                        LET task == rollout.Stages[i].Tasks[k]
                        IN  /\ task.SpecId = draft[i].TaskList[k].Payload.SpecID
                            /\ task.Type = convertToTaskType(draft[i].TaskList[k].Type)
                            /\ SubSeq(task.Name, 1, 6) = rollout.Stages[i].Name
                            /\ Range(task.BlockedByTasks) = DraftBlockers(i, k)
                            /\ Len(task.BlockedByTasks) = Cardinality(DraftBlockers(i, k))
            /\ \A i, j \in DOMAIN draft : \A k \in DOMAIN rollout.Stages[i].Tasks :
                  \A l \in DOMAIN rollout.Stages[j].Tasks :
                     rollout.Stages[i].Tasks[k].Uid = rollout.Stages[j].Tasks[l].Uid => (i = j /\ k = l)

\* two stages, the second of three tasks whose third is blocked by the other two
C30_Witness ==
    /\ ReadBack
    /\ ret[2].err = NoError
    /\ Len(call[1].draft.StageList) = 2
    /\ call[1].draft.StageList[2].TaskIndexDAGList = << Edge(0, 2), Edge(1, 2) >>
    /\ Len(ret[2].rollout.Stages[2].Tasks) = 3
    /\ Len(ret[2].rollout.Stages[2].Tasks[3].BlockedByTasks) = 2

====
